---- MODULE Spec2Model ----
(***************************************************************************)
(* GULLYESPORTS backend: the registration workflow (POST /api/v1/register), *)
(* the contact workflow (POST /api/v1/contact), the admin login and the     *)
(* token-protected admin routes, over the MongoDB collections they share.   *)
(***************************************************************************)
EXTENDS Integers, Sequences, FiniteSets, TLC

VARIABLES
    registrations,  \* the registrations collection, in insertion order (index = _id)
    contacts,       \* the contacts collection: _id -> document
    contactSeq,     \* number of contact documents ever inserted (next _id - 1)
    admins,         \* the admins collection: _id -> document
    adminSeq,       \* number of admin documents ever inserted
    issued,         \* the tokens generateToken has handed out so far
    now,            \* the wall clock, in milliseconds (Date.now())
    reg,            \* the POST /register handlers in flight: handler -> its locals
    stats,          \* the GET /stats handler in flight
    mail,           \* the notification emails dispatched so far (a set), each with its outcome
    hits,           \* the stores of the two rate limiters: limiter -> client address -> window
    server,         \* startServer's position and mongoose.connection.readyState
    seed,           \* the runs of scripts/seedAdmin.js: process -> its position and output
    res             \* the response sent last, and the request it answers

vars == <<registrations, contacts, contactSeq, admins, adminSeq, issued, now, reg, stats,
          mail, hits, server, seed, res>>

----------------------------------------------------------------------------
(* Bounds of the model *)

\* concurrent POST /register handlers
NumHandlers == 2
\* registrations that may be stored or in flight
MaxRegistrations == 2
\* contact documents ever inserted
MaxContacts == 2
\* contact documents inserted while every admin route is exercised
AdminContacts == 1
\* admin documents ever inserted (the seed script re-run after a manual delete)
MaxAdmins == 1
\* tokens issued
MaxTokens == 2
\* processes that run the seed script, and the runs of each
NumSeeders == 2
MaxSeedRuns == 2

Handlers == 1..NumHandlers

----------------------------------------------------------------------------
(* JavaScript values and strings.  A string is a sequence of characters; a   *)
(* body field that may be absent or null is a tagged value.                 *)

Undefined == [type |-> "undefined", str |-> <<>>]
Null == [type |-> "null", str |-> <<>>]
JsString(s) == [type |-> "string", str |-> s]

\* !v for a field that is undefined, null or a string
Falsy(v) == v.type \in {"undefined", "null"} \/ v.str = <<>>

Rep(c, n) == [i \in 1..n |-> c]

RECURSIVE TrimStart(_)
TrimStart(s) == IF s # <<>> /\ Head(s) = " " THEN TrimStart(Tail(s)) ELSE s

RECURSIVE TrimEnd(_)
TrimEnd(s) == IF s # <<>> /\ s[Len(s)] = " " THEN TrimEnd(SubSeq(s, 1, Len(s) - 1)) ELSE s

\* String.prototype.trim / the validator's trim() sanitizer
Trim(s) == TrimEnd(TrimStart(s))

RECURSIVE Flatten(_)
Flatten(ss) == IF ss = <<>> THEN <<>> ELSE Head(ss) \o Flatten(Tail(ss))

----------------------------------------------------------------------------
(* Fee & roster policy: registerRoutes FEE_TABLE, PLAYER_COUNT *)

FEE_TABLE == [solo |-> 5, duo |-> 10, squad |-> 20]

\* mutant: a squad is taken to be three players
PLAYER_COUNT_squadOfThree == [solo |-> 1, duo |-> 2, squad |-> 3]

PLAYER_COUNT == [solo |-> 1, duo |-> 2, squad |-> 4]

GAMES == {"pubg", "freefire", "cod"}
MODES == {"solo", "duo", "squad"}
REG_STATUSES == {"pending", "approved", "rejected"}
CONTACT_STATUSES == {"new", "read", "replied"}

\* isArray({ min: 1, max: 5 }) and the schema's players validator
MinPlayers == 1
MaxPlayers == 5
\* isLength({ max: 50 }) on teamName, maxlength of teamName and inGameName
MaxTeamName == 50
MaxInGameName == 50
MaxInGameId == 30
\* isLength({ min: 5 }) on transactionId
MinTransactionId == 5
\* entryFee: min 5 in the schema
MinEntryFee == 5

----------------------------------------------------------------------------
(* POST /api/v1/register: the validation chains *)

\* body('teamName').optional({ nullable: true, checkFalsy: true }): the chain
\* (sanitizers included) is skipped for a falsy value
TeamNameSkipped(b) == Falsy(b.teamName)

\* req.body after the chains' sanitizers have run
SanitizeRegisterBody(b) ==
    [b EXCEPT
        !.teamName = IF TeamNameSkipped(b) THEN @ ELSE JsString(Trim(@.str)),
        !.players = [@ EXCEPT !.items =
            [i \in 1..Len(@) |->
                [inGameName |-> Trim(@[i].inGameName),
                 inGameId |-> Trim(@[i].inGameId),
                 phone |-> Trim(@[i].phone)]]],
        !.transactionId = Trim(@)]

PlayerFieldErrors(items, field, msg) ==
    Flatten([i \in 1..Len(items) |->
        IF Trim(items[i][field]) = <<>> THEN <<msg>> ELSE <<>>])

\* mutant: validation stops at the first failing validator
RegisterValidationErrors_firstOnly(b) ==
    IF b.game = "" THEN <<"Game is required">>
    ELSE IF b.game \notin GAMES THEN <<"Invalid game selection">>
    ELSE IF b.mode = "" THEN <<"Mode is required">>
    ELSE IF b.mode \notin MODES THEN <<"Invalid mode selection">>
    ELSE IF ~TeamNameSkipped(b) /\ Len(Trim(b.teamName.str)) > MaxTeamName
    THEN <<"Team name cannot exceed 50 characters">>
    ELSE IF ~b.players.isArray
            \/ Len(b.players.items) < MinPlayers
            \/ Len(b.players.items) > MaxPlayers
    THEN <<"Players array is required (1-5 players)">>
    ELSE IF Len(Trim(b.transactionId)) < MinTransactionId
    THEN <<"Transaction ID must be at least 5 characters">>
    ELSE <<>>

\* errors.array().map(err => err.msg): every failing validator of every chain
RegisterValidationErrors(b) ==
       (IF b.game = "" THEN <<"Game is required">> ELSE <<>>)
    \o (IF b.game \notin GAMES THEN <<"Invalid game selection">> ELSE <<>>)
    \o (IF b.mode = "" THEN <<"Mode is required">> ELSE <<>>)
    \o (IF b.mode \notin MODES THEN <<"Invalid mode selection">> ELSE <<>>)
    \o (IF ~TeamNameSkipped(b) /\ Len(Trim(b.teamName.str)) > MaxTeamName
        THEN <<"Team name cannot exceed 50 characters">> ELSE <<>>)
    \o (IF ~b.players.isArray
           \/ Len(b.players.items) < MinPlayers
           \/ Len(b.players.items) > MaxPlayers
        THEN <<"Players array is required (1-5 players)">> ELSE <<>>)
    \o PlayerFieldErrors(b.players.items, "inGameName",
                         "In-game name is required for all players")
    \o PlayerFieldErrors(b.players.items, "inGameId",
                         "In-game ID is required for all players")
    \o PlayerFieldErrors(b.players.items, "phone",
                         "Phone number is required for all players")
    \o (IF Trim(b.transactionId) = <<>>
        THEN <<"Transaction ID is required">> ELSE <<>>)
    \o (IF Len(Trim(b.transactionId)) < MinTransactionId
        THEN <<"Transaction ID must be at least 5 characters">> ELSE <<>>)

\* mutant: the fee is taken from the request body
ComputeEntryFee_fromBody(b) == b.entryFee

\* const entryFee = FEE_TABLE[mode]
ComputeEntryFee(b) == FEE_TABLE[b.mode]

----------------------------------------------------------------------------
(* The Registration model: schema validation, pre('save') hook, unique index *)

\* teamName: teamName || null
TeamNameOrNull(t) == IF Falsy(t) THEN Null ELSE t

\* the schema's trim: true setters on a player sub-document
CastPlayer(pl) ==
    [inGameName |-> Trim(pl.inGameName), inGameId |-> Trim(pl.inGameId),
     phone |-> Trim(pl.phone)]

\* the schema's trim: true setter on teamName (default: null)
CastTeamName(t) == IF t.type = "string" THEN JsString(Trim(t.str)) ELSE Null

\* mutant: the document takes its status from the request body
NewRegistration_statusFromBody(h, t) ==
    [game |-> h.body.game,
     mode |-> h.body.mode,
     teamName |-> CastTeamName(TeamNameOrNull(h.body.teamName)),
     players |-> [i \in 1..Len(h.body.players.items) |->
                    CastPlayer(h.body.players.items[i])],
     transactionId |-> Trim(h.body.transactionId),
     entryFee |-> h.entryFee,
     status |-> h.body.status,
     createdAt |-> t]

\* new Registration({ game, mode, teamName: teamName || null, players,
\*                    transactionId, entryFee, status: 'pending' })
\* h: the handler's req.body (sanitized) and its entryFee local; t: Date.now()
NewRegistration(h, t) ==
    [game |-> h.body.game,
     mode |-> h.body.mode,
     teamName |-> CastTeamName(TeamNameOrNull(h.body.teamName)),
     players |-> [i \in 1..Len(h.body.players.items) |->
                    CastPlayer(h.body.players.items[i])],
     transactionId |-> Trim(h.body.transactionId),
     entryFee |-> h.entryFee,
     status |-> "pending",
     createdAt |-> t]

\* the schema's validators, run by save() before the pre('save') hook
SchemaValid(doc) ==
    /\ doc.game \in GAMES
    /\ doc.mode \in MODES
    /\ (doc.teamName.type = "string" => Len(doc.teamName.str) <= MaxTeamName)
    /\ Len(doc.players) >= MinPlayers
    /\ Len(doc.players) <= MaxPlayers
    /\ \A i \in 1..Len(doc.players) :
         /\ doc.players[i].inGameName # <<>>
         /\ Len(doc.players[i].inGameName) <= MaxInGameName
         /\ doc.players[i].inGameId # <<>>
         /\ Len(doc.players[i].inGameId) <= MaxInGameId
         /\ doc.players[i].phone # <<>>
    /\ doc.transactionId # <<>>
    /\ doc.entryFee >= MinEntryFee
    /\ doc.status \in REG_STATUSES

\* the hook's own copy of the player-count table
expectedPlayers == PLAYER_COUNT

\* registrationSchema.pre('save'): does the hook throw?
PreSaveThrows(doc) ==
    \/ Len(doc.players) < expectedPlayers[doc.mode]
    \/ (doc.mode \in {"duo", "squad"} /\ Falsy(doc.teamName))

\* transactionId: { unique: true }: would the insert raise E11000?
DuplicateKey(store, doc) ==
    \E i \in 1..Len(store) : store[i].transactionId = doc.transactionId

\* Registration.findOne({ transactionId })
FindByTransactionId(store, txn) ==
    {i \in 1..Len(store) : store[i].transactionId = txn}


----------------------------------------------------------------------------
(* Requests and responses *)

\* res.json(...) with its status, and the request it answers
Response(op, to, req, status, message, errors, data) ==
    [op |-> op, to |-> to, req |-> req, status |-> status, message |-> message,
     errors |-> errors, data |-> data]

NoResponse == Response("none", 0, [none |-> TRUE], 0, "", <<>>, {})

\* the success response's data of POST /register
RegisterData(id, h) ==
    [registrationId |-> id,
     game |-> h.body.game,
     mode |-> h.body.mode,
     teamName |-> TeamNameOrNull(h.body.teamName),
     playerCount |-> Len(h.body.players.items),
     entryFee |-> h.entryFee,
     status |-> "pending"]

EmptyBody ==
    [game |-> "", mode |-> "", teamName |-> Undefined,
     players |-> [isArray |-> FALSE, items |-> <<>>],
     transactionId |-> <<>>, entryFee |-> 0, status |-> ""]

IdleHandler == [pc |-> "idle", raw |-> EmptyBody, body |-> EmptyBody, entryFee |-> 0]

InFlight == Cardinality({p \in Handlers : reg[p].pc # "idle"})

----------------------------------------------------------------------------
(* POST /api/v1/register: the handler, one action per stretch between awaits *)

\* mutant: the roster must have exactly the mode's player count
PlayerCountRejected_exact(h) ==
    Len(h.body.players.items) # PLAYER_COUNT[h.body.mode]

\* if (players.length < expectedPlayers)
PlayerCountRejected(h) ==
    Len(h.body.players.items) < PLAYER_COUNT[h.body.mode]

\* mutant: the team name is asked of squads only
TeamNameMissing_squadOnly(h) ==
    h.body.mode = "squad" /\ Falsy(h.body.teamName)

\* if ((mode === 'duo' || mode === 'squad') && !teamName)
TeamNameMissing(h) ==
    h.body.mode \in {"duo", "squad"} /\ Falsy(h.body.teamName)

\* request received: validationResult, destructuring, the fee lookup
RegisterReceive(p, b) ==
    /\ reg[p].pc = "idle"
    /\ Len(registrations) + InFlight < MaxRegistrations
    /\ LET errs == RegisterValidationErrors(b)
           sb == SanitizeRegisterBody(b)
       IN IF errs # <<>>
          THEN /\ res' = Response("register", p, b, 400,
                            "Validation failed. Please check your input.", errs, {})
               /\ UNCHANGED reg
          ELSE /\ reg' = [reg EXCEPT ![p] =
                            [pc |-> "findOne", raw |-> b, body |-> sb,
                             entryFee |-> ComputeEntryFee(sb)]]
               /\ UNCHANGED res
    /\ UNCHANGED <<seed, server, hits, mail, registrations, contacts, contactSeq, admins, adminSeq, issued, now, stats>>

\* mutant: the player count and the team name are checked before the
\* duplicate lookup is looked at
RegisterFindOne_rosterFirst(p) ==
    /\ reg[p].pc = "findOne"
    /\ LET h == reg[p]
       IN IF PlayerCountRejected(h)
          THEN /\ res' = Response("register", p, h.raw, 400,
                            "mode requires at least expectedPlayers player(s). You provided players.length.",
                            <<>>, {})
               /\ reg' = [reg EXCEPT ![p] = IdleHandler]
          ELSE IF TeamNameMissing(h)
          THEN /\ res' = Response("register", p, h.raw, 400,
                            "Team name is required for duo and squad modes.", <<>>, {})
               /\ reg' = [reg EXCEPT ![p] = IdleHandler]
          ELSE IF FindByTransactionId(registrations, h.body.transactionId) # {}
          THEN /\ res' = Response("register", p, h.raw, 409,
                            "This transaction ID has already been used. Each registration requires a unique payment.",
                            <<>>, {})
               /\ reg' = [reg EXCEPT ![p] = IdleHandler]
          ELSE /\ reg' = [reg EXCEPT ![p].pc = "save"]
               /\ UNCHANGED res
    /\ UNCHANGED <<seed, server, hits, mail, registrations, contacts, contactSeq, admins, adminSeq, issued, now, stats>>

\* Registration.findOne resolves: duplicate check, player count, team name
RegisterFindOne(p) ==
    /\ reg[p].pc = "findOne"
    /\ LET h == reg[p]
       IN IF FindByTransactionId(registrations, h.body.transactionId) # {}
          THEN /\ res' = Response("register", p, h.raw, 409,
                            "This transaction ID has already been used. Each registration requires a unique payment.",
                            <<>>, {})
               /\ reg' = [reg EXCEPT ![p] = IdleHandler]
          ELSE IF PlayerCountRejected(h)
          THEN /\ res' = Response("register", p, h.raw, 400,
                            "mode requires at least expectedPlayers player(s). You provided players.length.",
                            <<>>, {})
               /\ reg' = [reg EXCEPT ![p] = IdleHandler]
          ELSE IF TeamNameMissing(h)
          THEN /\ res' = Response("register", p, h.raw, 400,
                            "Team name is required for duo and squad modes.", <<>>, {})
               /\ reg' = [reg EXCEPT ![p] = IdleHandler]
          ELSE /\ reg' = [reg EXCEPT ![p].pc = "save"]
               /\ UNCHANGED res
    /\ UNCHANGED <<seed, server, hits, mail, registrations, contacts, contactSeq, admins, adminSeq, issued, now, stats>>

\* what registration.save() throws: nothing (0), a validation or hook error, or
\* the driver's duplicate-key error with code 11000
NoError == 0
ThrownError == 1
E11000 == 11000

\* mutant: the collection has no unique index on transactionId
SaveError_noUniqueIndex(doc) ==
    IF ~SchemaValid(doc) \/ PreSaveThrows(doc) THEN ThrownError ELSE NoError

SaveError(doc) ==
    IF ~SchemaValid(doc) \/ PreSaveThrows(doc) THEN ThrownError
    ELSE IF DuplicateKey(registrations, doc) THEN E11000
    ELSE NoError

\* mutant: the catch block does not recognise the duplicate-key error
CatchResponse_noDuplicateCase(code) ==
    [status |-> 500, message |-> "Registration failed: error.message"]

\* the catch block of the handler: error.code === 11000 is a 409, the rest a 500
CatchResponse(code) ==
    IF code = E11000
    THEN [status |-> 409,
          message |-> "This transaction ID has already been used for another registration."]
    ELSE [status |-> 500, message |-> "Registration failed: error.message"]

\* sendRegistrationEmail(...) / sendContactEmail(...) called and not awaited: the
\* promise is pending
Dispatch(kind, id, payload) ==
    [kind |-> kind, id |-> id, state |-> "pending", payload |-> payload]

\* mutant: the notification is built from the request as the client sent it
RegistrationMail_clientFee(id, h) ==
    [game |-> h.raw.game, mode |-> h.raw.mode, teamName |-> h.raw.teamName,
     players |-> h.raw.players.items, transactionId |-> h.raw.transactionId,
     entryFee |-> h.raw.entryFee, registrationId |-> id]

\* { game, mode, teamName, players, transactionId, entryFee,
\*   registrationId: registration._id }
RegistrationMail(id, h) ==
    [game |-> h.body.game, mode |-> h.body.mode, teamName |-> h.body.teamName,
     players |-> h.body.players.items, transactionId |-> h.body.transactionId,
     entryFee |-> h.entryFee, registrationId |-> id]

\* how a dispatched notification can end: the promise resolves true, resolves
\* false, or rejects (one that never completes stays pending)
MAIL_OUTCOMES == {"sent", "failed", "rejected"}

\* mutant: the outcome of the notification is reported to the caller
MailSettle_surfaces(m, outcome) ==
    /\ m \in mail
    /\ m.state = "pending"
    /\ mail' = (mail \ {m}) \cup {[m EXCEPT !.state = outcome]}
    /\ res' = IF outcome = "sent" THEN res
              ELSE [res EXCEPT !.status = 500, !.message = "Registration failed: error.message",
                               !.data = {}]
    /\ UNCHANGED <<seed, server, hits, registrations, contacts, contactSeq, admins, adminSeq, issued, now,
                   reg, stats>>

\* the .then / .catch of a dispatched notification runs: a warning is logged
MailSettle(m, outcome) ==
    /\ m \in mail
    /\ m.state = "pending"
    /\ mail' = (mail \ {m}) \cup {[m EXCEPT !.state = outcome]}
    /\ UNCHANGED <<seed, server, hits, registrations, contacts, contactSeq, admins, adminSeq, issued, now,
                   reg, stats, res>>

\* mutant: the document is inserted before it is validated, so that a save
\* that throws leaves it behind
RegisterSave_insertsFirst(p) ==
    /\ reg[p].pc = "save"
    /\ LET h == reg[p]
           doc == NewRegistration(h, now)
       IN IF SaveError(doc) = E11000
          THEN /\ res' = Response("register", p, h.raw, CatchResponse(E11000).status,
                            CatchResponse(E11000).message, <<>>, {})
               /\ UNCHANGED <<registrations, mail>>
          ELSE IF SaveError(doc) # NoError
          THEN /\ res' = Response("register", p, h.raw, CatchResponse(SaveError(doc)).status,
                            CatchResponse(SaveError(doc)).message, <<>>, {})
               /\ registrations' = Append(registrations, doc)
               /\ UNCHANGED mail
          ELSE /\ registrations' = Append(registrations, doc)
               /\ mail' = mail \cup {Dispatch("registration", Len(registrations) + 1,
                                             RegistrationMail(Len(registrations) + 1, h))}
               /\ res' = Response("register", p, h.raw, 201,
                            "Registration successful!", <<>>,
                            {RegisterData(Len(registrations) + 1, h)})
    /\ reg' = [reg EXCEPT ![p] = IdleHandler]
    /\ UNCHANGED <<seed, server, hits, contacts, contactSeq, admins, adminSeq, issued, now, stats>>

\* registration.save() settles: 201, or the catch block's 409 / 500
RegisterSave(p) ==
    /\ reg[p].pc = "save"
    /\ LET h == reg[p]
           doc == NewRegistration(h, now)
       IN IF SaveError(doc) # NoError
          THEN /\ res' = Response("register", p, h.raw, CatchResponse(SaveError(doc)).status,
                            CatchResponse(SaveError(doc)).message, <<>>, {})
               /\ UNCHANGED <<registrations, mail>>
          ELSE /\ registrations' = Append(registrations, doc)
               /\ mail' = mail \cup {Dispatch("registration", Len(registrations) + 1,
                                             RegistrationMail(Len(registrations) + 1, h))}
               /\ res' = Response("register", p, h.raw, 201,
                            "Registration successful!", <<>>,
                            {RegisterData(Len(registrations) + 1, h)})
    /\ reg' = [reg EXCEPT ![p] = IdleHandler]
    /\ UNCHANGED <<seed, server, hits, contacts, contactSeq, admins, adminSeq, issued, now, stats>>

----------------------------------------------------------------------------
(* Administrator accounts and session tokens *)

\* scripts/seedAdmin.js
ADMIN_EMAIL == "ishukriitpatna@gmail.com"
ADMIN_PASSWORD == "ISHUkr75@"
ADMIN_NAME == "GULLYESPORTS Admin"

\* bcrypt.hash(password, salt) and bcrypt.compare(candidate, hash)
BcryptHash(password) == [bcrypt |-> password]
ComparePassword(candidate, hash) == hash = BcryptHash(candidate)

\* mutant: the hook hashes the password field on every save, so that a save
\* of a stored account hashes the hash
PreSaveAdmin_always(doc, passwordModified) ==
    [doc EXCEPT !.password = IF passwordModified THEN BcryptHash(@)
                             ELSE BcryptHash("$2a$12$")]

\* adminSchema.pre('save'): the password is hashed if it was modified
PreSaveAdmin(doc, passwordModified) ==
    IF ~passwordModified THEN doc ELSE [doc EXCEPT !.password = BcryptHash(@)]

\* lastLogin: default null
NoDate == 0 - 1

\* isEmail() on the addresses the model submits
WellFormedEmails == {ADMIN_EMAIL, "nobody@example.com", "john@example.com"}
IsEmail(e) == e \in WellFormedEmails

\* expiresIn: '7d', in the seconds of the token's iat and exp
TokenLifetime == 7 * 24 * 60 * 60

\* jwt.sign({ id: adminId }, JWT_SECRET, { expiresIn: '7d' }) at clock time t (ms)
GenerateToken(adminId, t) ==
    [id |-> adminId, iat |-> t \div 1000, exp |-> (t \div 1000) + TokenLifetime,
     sig |-> "JWT_SECRET"]

\* mutant: the expiry is compared with > instead of >= and a day too late
JwtVerify_late(token, t) ==
    IF token.sig # "JWT_SECRET" THEN "JsonWebTokenError"
    ELSE IF t \div 1000 > token.exp + 24 * 60 * 60 THEN "TokenExpiredError"
    ELSE "ok"

\* jwt.verify(token, JWT_SECRET) at clock time t (ms): the error it throws, or "ok"
JwtVerify(token, t) ==
    IF token.sig # "JWT_SECRET" THEN "JsonWebTokenError"
    ELSE IF t \div 1000 >= token.exp THEN "TokenExpiredError"
    ELSE "ok"

\* the Authorization header of a request
NoToken == [id |-> 0, iat |-> 0, exp |-> 0, sig |-> "none"]
NoAuthorization == [present |-> FALSE, token |-> NoToken]
Bearer(token) == [present |-> TRUE, token |-> token]

\* mutant: an expired token is let through
Protect_ignoresExpiry(auth) ==
    IF ~auth.present
    THEN [pass |-> FALSE, status |-> 401, message |-> "Not authorized. Please login.",
          admin |-> 0]
    ELSE IF JwtVerify(auth.token, now) = "JsonWebTokenError"
    THEN [pass |-> FALSE, status |-> 401, message |-> "Invalid token. Please login again.",
          admin |-> 0]
    ELSE IF auth.token.id \notin DOMAIN admins
    THEN [pass |-> FALSE, status |-> 401, message |-> "Admin account not found.",
          admin |-> 0]
    ELSE [pass |-> TRUE, status |-> 200, message |-> "", admin |-> auth.token.id]

\* mutant: only the token of the account's latest login is let through
Protect_latestOnly(auth) ==
    IF ~auth.present
    THEN [pass |-> FALSE, status |-> 401, message |-> "Not authorized. Please login.",
          admin |-> 0]
    ELSE IF JwtVerify(auth.token, now) = "JsonWebTokenError"
    THEN [pass |-> FALSE, status |-> 401, message |-> "Invalid token. Please login again.",
          admin |-> 0]
    ELSE IF JwtVerify(auth.token, now) = "TokenExpiredError"
    THEN [pass |-> FALSE, status |-> 401, message |-> "Token expired. Please login again.",
          admin |-> 0]
    ELSE IF auth.token.id \notin DOMAIN admins
    THEN [pass |-> FALSE, status |-> 401, message |-> "Admin account not found.",
          admin |-> 0]
    ELSE IF auth.token.iat # admins[auth.token.id].lastLogin \div 1000
    THEN [pass |-> FALSE, status |-> 401, message |-> "Invalid token. Please login again.",
          admin |-> 0]
    ELSE [pass |-> TRUE, status |-> 200, message |-> "", admin |-> auth.token.id]

\* middleware/authMiddleware.js protect: next() or the 401 it answers
Protect(auth) ==
    IF ~auth.present
    THEN [pass |-> FALSE, status |-> 401, message |-> "Not authorized. Please login.",
          admin |-> 0]
    ELSE IF JwtVerify(auth.token, now) = "JsonWebTokenError"
    THEN [pass |-> FALSE, status |-> 401, message |-> "Invalid token. Please login again.",
          admin |-> 0]
    ELSE IF JwtVerify(auth.token, now) = "TokenExpiredError"
    THEN [pass |-> FALSE, status |-> 401, message |-> "Token expired. Please login again.",
          admin |-> 0]
    ELSE IF auth.token.id \notin DOMAIN admins
    THEN [pass |-> FALSE, status |-> 401, message |-> "Admin account not found.",
          admin |-> 0]
    ELSE [pass |-> TRUE, status |-> 200, message |-> "", admin |-> auth.token.id]

\* express-rate-limit: rateLimit({ windowMs: 15 * 60 * 1000, max: ... })
WindowMs == 15 * 60 * 1000
LoginMax == 5
ApiMax == 100

\* req.ip of the clients
Clients == {"203.0.113.1", "203.0.113.2"}

\* a key the store of a limiter does not hold
NoHits == [n |-> 0, reset |-> 0]

\* mutant: one counter for all clients
Increment_oneKey(store, c) ==
    [k \in Clients |->
        IF store[c].reset <= now THEN [n |-> 1, reset |-> now + WindowMs]
        ELSE [n |-> store[c].n + 1, reset |-> store[c].reset]]

\* the store counts a request of client c: a window that is over is replaced
\* by one that starts now with this request as its first
Increment(store, c) ==
    [store EXCEPT ![c] = IF store[c].reset <= now
                         THEN [n |-> 1, reset |-> now + WindowMs]
                         ELSE [n |-> store[c].n + 1, reset |-> store[c].reset]]

\* the 429 of a limiter whose max the client has passed
TooMany(op, rq, message) == Response(op, 0, rq, 429, message, <<>>, {})

\* Admin.findOne({ email })
FindAdminByEmail(email) == {a \in DOMAIN admins : admins[a].email = email}

\* seedAdmin(): create the initial admin unless one with ADMIN_EMAIL exists
SeedAdmin ==
    /\ (FindAdminByEmail(ADMIN_EMAIL) # {} \/ adminSeq < MaxAdmins)
    /\ IF FindAdminByEmail(ADMIN_EMAIL) # {}
       THEN UNCHANGED <<admins, adminSeq>>
       ELSE /\ adminSeq' = adminSeq + 1
            /\ admins' = [a \in DOMAIN admins \cup {adminSeq + 1} |->
                            IF a = adminSeq + 1
                            THEN PreSaveAdmin([email |-> ADMIN_EMAIL,
                                               password |-> ADMIN_PASSWORD,
                                               name |-> ADMIN_NAME,
                                               role |-> "superadmin",
                                               lastLogin |-> NoDate], TRUE)
                            ELSE admins[a]]
    /\ UNCHANGED <<seed, server, hits, mail, registrations, contacts, contactSeq, issued, now, reg, stats, res>>

\* the processes that run scripts/seedAdmin.js, possibly at the same time
Seeders == 1..NumSeeders

\* no run in progress; runs counts the finished ones and last is what the
\* last of them logged
IdleSeeder == [pc |-> "idle", runs |-> 0, last |-> "none"]

\* mutant: the collection has no unique index on email
AdminEmailTaken_noIndex(email) == FALSE

\* email: { unique: true }: would the insert raise E11000?
AdminEmailTaken(email) == \E a \in DOMAIN admins : admins[a].email = email

\* seedAdmin(): Admin.findOne({ email: ADMIN_EMAIL }) resolves; the run ends
\* here if the admin exists
SeedFind(r) ==
    /\ seed[r].pc = "idle"
    /\ seed[r].runs < MaxSeedRuns
    /\ seed' = [seed EXCEPT ![r] =
                  IF FindAdminByEmail(ADMIN_EMAIL) # {}
                  THEN [pc |-> "idle", runs |-> @.runs + 1, last |-> "exists"]
                  ELSE [@ EXCEPT !.pc = "save"]]
    /\ UNCHANGED <<server, hits, mail, registrations, contacts, contactSeq, admins, adminSeq,
                   issued, now, reg, stats, res>>

\* seedAdmin(): admin.save() settles, with the document or with E11000
SeedSave(r) ==
    /\ seed[r].pc = "save"
    /\ IF AdminEmailTaken(ADMIN_EMAIL)
       THEN /\ seed' = [seed EXCEPT ![r] =
                          [pc |-> "idle", runs |-> @.runs + 1, last |-> "error"]]
            /\ UNCHANGED <<admins, adminSeq>>
       ELSE /\ seed' = [seed EXCEPT ![r] =
                          [pc |-> "idle", runs |-> @.runs + 1, last |-> "created"]]
            /\ adminSeq' = adminSeq + 1
            /\ admins' = [a \in DOMAIN admins \cup {adminSeq + 1} |->
                            IF a = adminSeq + 1
                            THEN PreSaveAdmin([email |-> ADMIN_EMAIL,
                                               password |-> ADMIN_PASSWORD,
                                               name |-> ADMIN_NAME,
                                               role |-> "superadmin",
                                               lastLogin |-> NoDate], TRUE)
                            ELSE admins[a]]
    /\ UNCHANGED <<server, hits, mail, registrations, contacts, contactSeq, issued, now, reg,
                   stats, res>>

\* "Delete the admin manually if you want to recreate": an operator removes the
\* account directly in the database
DeleteAdminManually(a) ==
    /\ a \in DOMAIN admins
    /\ admins' = [x \in DOMAIN admins \ {a} |-> admins[x]]
    /\ UNCHANGED <<seed, server, hits, mail, registrations, contacts, contactSeq, adminSeq, issued, now, reg, stats, res>>

\* the login chains: errors.array()
LoginValidationErrors(email, password) ==
       (IF email = "" THEN <<"Email is required">> ELSE <<>>)
    \o (IF ~IsEmail(email) THEN <<"Invalid email">> ELSE <<>>)
    \o (IF password = "" THEN <<"Password is required">> ELSE <<>>)

\* mutant: an unknown email gets an answer of its own
LoginUnknownEmail_distinct == [status |-> 404, message |-> "No admin with this email."]

\* the 401 of POST /login when no admin has the email
LoginUnknownEmail == [status |-> 401, message |-> "Invalid email or password."]
\* the 401 of POST /login when comparePassword is false
LoginWrongPassword == [status |-> 401, message |-> "Invalid email or password."]

\* POST /login: the validators and the handler, behind the limiters
LoginHandler(email, password) ==
    LET errs == LoginValidationErrors(email, password)
        found == FindAdminByEmail(email)
        rq == [email |-> email, password |-> password]
    IN
    /\ IF errs # <<>>
       THEN /\ res' = Response("login", 0, rq, 400, errs[1], <<>>, {})
            /\ UNCHANGED <<admins, issued>>
       ELSE IF found = {}
       THEN /\ res' = Response("login", 0, rq, LoginUnknownEmail.status,
                               LoginUnknownEmail.message, <<>>, {})
            /\ UNCHANGED <<admins, issued>>
       ELSE LET a == CHOOSE x \in found : TRUE
            IN IF ~ComparePassword(password, admins[a].password)
               THEN /\ res' = Response("login", 0, rq, LoginWrongPassword.status,
                                       LoginWrongPassword.message, <<>>, {})
                    /\ UNCHANGED <<admins, issued>>
               ELSE /\ Cardinality(issued \cup {GenerateToken(a, now)}) <= MaxTokens
                    /\ admins' = [admins EXCEPT
                                    ![a] = PreSaveAdmin([@ EXCEPT !.lastLogin = now], FALSE)]
                    /\ issued' = issued \cup {GenerateToken(a, now)}
                    /\ res' = Response("login", 0, rq, 200, "Login successful", <<>>,
                                 {[token |-> GenerateToken(a, now),
                                   admin |-> [id |-> a,
                                              name |-> admins[a].name,
                                              email |-> admins[a].email,
                                              role |-> admins[a].role]]})
    /\ UNCHANGED <<seed, server, mail, registrations, contacts, contactSeq, adminSeq, now, reg, stats>>

\* POST /api/v1/admin/login from a client that neither limiter stops
Login(email, password) ==
    /\ LoginHandler(email, password)
    /\ UNCHANGED hits

----------------------------------------------------------------------------
(* POST /api/v1/contact *)

SUBJECTS == {"tournament", "registration", "payment", "report", "partnership",
             "feedback", "other"}

\* isLength({ min: 2, max: 100 }) on name, isLength({ min: 10, max: 2000 }) on message
MinName == 2
MaxName == 100
MinMessage == 10
MaxMessage == 2000

\* normalizeEmail() on the addresses the model submits
NormalizeEmail(e) == IF e = "John@Example.com" THEN "john@example.com" ELSE e

\* isEmail() is case-insensitive
IsEmailAnyCase(e) == IsEmail(NormalizeEmail(e))

\* errors.array().map(err => err.msg) of the contact chains
ContactValidationErrors(b) ==
       (IF Trim(b.name) = <<>> THEN <<"Name is required">> ELSE <<>>)
    \o (IF Len(Trim(b.name)) < MinName \/ Len(Trim(b.name)) > MaxName
        THEN <<"Name must be 2-100 characters">> ELSE <<>>)
    \o (IF b.email = "" THEN <<"Email is required">> ELSE <<>>)
    \o (IF ~IsEmailAnyCase(b.email) THEN <<"Invalid email format">> ELSE <<>>)
    \o (IF b.subject = "" THEN <<"Subject is required">> ELSE <<>>)
    \o (IF b.subject \notin SUBJECTS THEN <<"Invalid subject category">> ELSE <<>>)
    \o (IF Trim(b.message) = <<>> THEN <<"Message is required">> ELSE <<>>)
    \o (IF Len(Trim(b.message)) < MinMessage \/ Len(Trim(b.message)) > MaxMessage
        THEN <<"Message must be 10-2000 characters">> ELSE <<>>)

\* new Contact({ name, email, phone: phone || null, subject, message }), status
\* defaulting to 'new'
NewContact(b, t) ==
    [name |-> Trim(b.name),
     email |-> NormalizeEmail(b.email),
     phone |-> IF Falsy(b.phone) THEN Null ELSE JsString(Trim(b.phone.str)),
     subject |-> b.subject,
     message |-> Trim(b.message),
     status |-> "new",
     createdAt |-> t]

\* sendContactEmail({ name, email, phone, subject, message }): req.body after
\* the chains' sanitizers
ContactMail(b) ==
    [name |-> Trim(b.name),
     email |-> NormalizeEmail(b.email),
     phone |-> IF Falsy(b.phone) THEN b.phone ELSE JsString(Trim(b.phone.str)),
     subject |-> b.subject,
     message |-> Trim(b.message)]

\* POST /api/v1/contact
SubmitContact(b) ==
    /\ contactSeq < MaxContacts
    /\ IF ContactValidationErrors(b) # <<>>
       THEN /\ res' = Response("contact", 0, b, 400,
                         "Validation failed. Please check your input.",
                         ContactValidationErrors(b), {})
            /\ UNCHANGED <<contacts, contactSeq, mail>>
       ELSE /\ contactSeq' = contactSeq + 1
            /\ mail' = mail \cup {Dispatch("contact", contactSeq + 1, ContactMail(b))}
            /\ contacts' = [c \in DOMAIN contacts \cup {contactSeq + 1} |->
                              IF c = contactSeq + 1 THEN NewContact(b, now)
                              ELSE contacts[c]]
            /\ res' = Response("contact", 0, b, 201,
                         "Your message has been sent successfully!", <<>>, {})
    /\ UNCHANGED <<seed, server, hits, registrations, admins, adminSeq, issued, now, reg, stats>>

----------------------------------------------------------------------------
(* The protected admin routes *)

\* the 401 protect answers instead of calling the route
\* req.params.id is a string; Mongoose casts it to an ObjectId and throws a
\* CastError for one that is no ObjectId.  Here the _ids are the positive
\* integers and MalformedId stands for every string that cannot be cast.
MalformedId == 0 - 1
IsObjectId(id) == id # MalformedId

Denied(op, rq) ==
    Response(op, 0, rq, Protect(rq.auth).status, Protect(rq.auth).message, <<>>, {})

\* mutant: the handler answers with the stored document, password included
MeHandler_wholeDocument(auth) ==
    LET rq == [auth |-> auth]
        a == Protect(auth).admin
    IN
    /\ res' = IF ~Protect(auth).pass THEN Denied("me", rq)
              ELSE Response("me", 0, rq, 200, "", <<>>, {admins[a]})
    /\ UNCHANGED <<seed, server, mail, registrations, contacts, contactSeq, admins, adminSeq, issued, now,
                   reg, stats>>

\* GET /me: protect and the handler, behind the limiter
MeHandler(auth) ==
    LET rq == [auth |-> auth]
        a == Protect(auth).admin
    IN
    /\ res' = IF ~Protect(auth).pass THEN Denied("me", rq)
              ELSE Response("me", 0, rq, 200, "", <<>>,
                     {[id |-> a, name |-> admins[a].name, email |-> admins[a].email,
                       role |-> admins[a].role, lastLogin |-> admins[a].lastLogin]})
    /\ UNCHANGED <<seed, server, mail, registrations, contacts, contactSeq, admins, adminSeq, issued, now,
                   reg, stats>>

\* GET /api/v1/admin/me from a client the limiter does not stop
Me(auth) ==
    /\ MeHandler(auth)
    /\ UNCHANGED hits

\* POST /api/v1/admin/login as the server sees it: apiLimiter, loginLimiter,
\* then the validators and the handler
LoginRequest(c, email, password) ==
    LET api == Increment(hits.api, c)
        login == Increment(hits.login, c)
        rq == [ip |-> c, email |-> email, password |-> password]
    IN
    IF api[c].n > ApiMax
    THEN /\ hits' = [hits EXCEPT !.api = api]
         /\ res' = TooMany("login", rq,
                       "Too many requests. Please try again after 15 minutes.")
         /\ UNCHANGED <<seed, server, mail, registrations, contacts, contactSeq, admins, adminSeq, issued,
                        now, reg, stats>>
    ELSE IF login[c].n > LoginMax
    THEN /\ hits' = [api |-> api, login |-> login]
         /\ res' = TooMany("login", rq,
                       "Too many login attempts. Please try again after 15 minutes.")
         /\ UNCHANGED <<seed, server, mail, registrations, contacts, contactSeq, admins, adminSeq, issued,
                        now, reg, stats>>
    ELSE /\ hits' = [api |-> api, login |-> login]
         /\ LoginHandler(email, password)

\* GET /api/v1/admin/me as the server sees it: apiLimiter, then protect and
\* the handler
MeRequest(c, auth) ==
    LET api == Increment(hits.api, c)
        rq == [ip |-> c, auth |-> auth]
    IN
    IF api[c].n > ApiMax
    THEN /\ hits' = [hits EXCEPT !.api = api]
         /\ res' = TooMany("me", rq,
                       "Too many requests. Please try again after 15 minutes.")
         /\ UNCHANGED <<seed, server, mail, registrations, contacts, contactSeq, admins, adminSeq, issued,
                        now, reg, stats>>
    ELSE /\ hits' = [hits EXCEPT !.api = api]
         /\ MeHandler(auth)

CountContacts(status) ==
    Cardinality({c \in DOMAIN contacts : status = "" \/ contacts[c].status = status})

CountRegistrations(field, value) ==
    Cardinality({i \in 1..Len(registrations) :
                    field = "" \/ registrations[i][field] = value})

RECURSIVE SumEntryFee(_)
\* approvedRegs.reduce((sum, r) => sum + (r.entryFee || 0), 0)
SumEntryFee(docs) ==
    IF docs = <<>> THEN 0 ELSE Head(docs).entryFee + SumEntryFee(Tail(docs))

\* mutant: the find has no status filter
ApprovedRegistrations_all == registrations

\* Registration.find({ status: 'approved' }, 'entryFee')
ApprovedRegistrations == SelectSeq(registrations, LAMBDA r : r.status = "approved")

IdleStats ==
    [pc |-> "idle", auth |-> NoAuthorization,
     counts |-> [totalContacts |-> 0, newContacts |-> 0, totalRegistrations |-> 0,
                 pendingRegistrations |-> 0, approvedRegistrations |-> 0,
                 pubgRegistrations |-> 0, freefireRegistrations |-> 0,
                 codRegistrations |-> 0]]

\* GET /stats: protect, then the Promise.all of the eight countDocuments
StatsCount(auth) ==
    LET rq == [auth |-> auth]
    IN
    /\ stats.pc = "idle"
    /\ IF ~Protect(auth).pass
       THEN /\ res' = Denied("stats", rq)
            /\ UNCHANGED stats
       ELSE /\ stats' =
                 [pc |-> "revenue", auth |-> auth,
                  counts |->
                     [totalContacts |-> CountContacts(""),
                      newContacts |-> CountContacts("new"),
                      totalRegistrations |-> CountRegistrations("", ""),
                      pendingRegistrations |-> CountRegistrations("status", "pending"),
                      approvedRegistrations |-> CountRegistrations("status", "approved"),
                      pubgRegistrations |-> CountRegistrations("game", "pubg"),
                      freefireRegistrations |-> CountRegistrations("game", "freefire"),
                      codRegistrations |-> CountRegistrations("game", "cod")]]
            /\ UNCHANGED res
    /\ UNCHANGED <<seed, server, hits, mail, registrations, contacts, contactSeq, admins, adminSeq, issued, now, reg>>

\* the eight queries of the Promise.all, by the name of the count they yield
CountQueries ==
    {"totalContacts", "newContacts", "totalRegistrations", "pendingRegistrations",
     "approvedRegistrations", "pubgRegistrations", "freefireRegistrations",
     "codRegistrations"}

\* what a countDocuments query yields from the store as it is when it runs
CountQuery(q) ==
    CASE q = "totalContacts" -> CountContacts("")
      [] q = "newContacts" -> CountContacts("new")
      [] q = "totalRegistrations" -> CountRegistrations("", "")
      [] q = "pendingRegistrations" -> CountRegistrations("status", "pending")
      [] q = "approvedRegistrations" -> CountRegistrations("status", "approved")
      [] q = "pubgRegistrations" -> CountRegistrations("game", "pubg")
      [] q = "freefireRegistrations" -> CountRegistrations("game", "freefire")
      [] q = "codRegistrations" -> CountRegistrations("game", "cod")

\* a count whose query has been sent and has not been answered
Unresolved == -1

\* GET /stats: protect, then the eight countDocuments are sent
StatsStart(auth) ==
    LET rq == [auth |-> auth]
    IN
    /\ stats.pc = "idle"
    /\ IF ~Protect(auth).pass
       THEN /\ res' = Denied("stats", rq)
            /\ UNCHANGED stats
       ELSE /\ stats' = [pc |-> "counts", auth |-> auth,
                         counts |-> [q \in CountQueries |-> Unresolved]]
            /\ UNCHANGED res
    /\ UNCHANGED <<seed, server, hits, mail, registrations, contacts, contactSeq, admins, adminSeq, issued, now, reg>>

\* GET /stats: the database answers one of the eight queries, each on its own
\* and in any order; the Promise.all resolves with the last
StatsCountResolves(q) ==
    /\ stats.pc = "counts"
    /\ stats.counts[q] = Unresolved
    /\ stats' = [stats EXCEPT
                    !.counts[q] = CountQuery(q),
                    !.pc = IF \A o \in CountQueries \ {q} : stats.counts[o] # Unresolved
                           THEN "revenue" ELSE "counts"]
    /\ UNCHANGED <<seed, server, hits, mail, registrations, contacts, contactSeq, admins, adminSeq, issued, now,
                   reg, res>>

\* GET /stats: the find of the approved registrations resolves, the response is sent
StatsRevenue ==
    /\ stats.pc = "revenue"
    /\ res' = Response("stats", 0, [auth |-> stats.auth], 200, "", <<>>,
                 {[counts |-> stats.counts,
                   revenue |-> SumEntryFee(ApprovedRegistrations)]})
    /\ stats' = IdleStats
    /\ UNCHANGED <<seed, server, hits, mail, registrations, contacts, contactSeq, admins, adminSeq, issued, now, reg>>

RECURSIVE NewestFirst(_, _)
\* sort({ createdAt: -1 }) of the documents with the _ids given, at[id] being
\* the createdAt of each: MongoDB leaves the order of documents with equal sort
\* keys open and may order them differently from one query to the next, so
\* this is the set of the orders a query can produce
NewestFirst(ids, at) ==
    IF ids = {} THEN {<<>>}
    ELSE UNION {{<<m>> \o s : s \in NewestFirst(ids \ {m}, at)} :
                   m \in {x \in ids : \A y \in ids : at[y] <= at[x]}}

\* .skip(skip).limit(limit)
SkipLimit(seq, skip, limit) ==
    SubSeq(seq, skip + 1, IF skip + limit < Len(seq) THEN skip + limit ELSE Len(seq))

\* Math.ceil(total / limit)
Ceil(total, limit) == (total + limit - 1) \div limit

Pagination(page, limit, total) ==
    [page |-> page, limit |-> limit, total |-> total, pages |-> Ceil(total, limit)]

\* GET /contacts: the filter built from the query
ContactsMatching(status) ==
    {c \in DOMAIN contacts :
        status \in CONTACT_STATUSES => contacts[c].status = status}

\* GET /contacts
ListContacts(auth, status, page, limit) ==
    LET rq == [auth |-> auth, status |-> status, page |-> page, limit |-> limit]
        at == [c \in DOMAIN contacts |-> contacts[c].createdAt]
    IN
    /\ \E hit \in NewestFirst(ContactsMatching(status), at) :
          LET rows == SkipLimit(hit, (page - 1) * limit, limit)
          IN res' = IF ~Protect(auth).pass THEN Denied("listContacts", rq)
                    ELSE Response("listContacts", 0, rq, 200, "", <<>>,
                           {[rows |-> [i \in 1..Len(rows) |->
                                         [id |-> rows[i], doc |-> contacts[rows[i]]]],
                             pagination |-> Pagination(page, limit, Len(hit))]})
    /\ UNCHANGED <<seed, server, hits, mail, registrations, contacts, contactSeq, admins, adminSeq, issued, now,
                   reg, stats>>

\* new, then read, then replied
StatusRank(status) == IF status = "new" THEN 1 ELSE IF status = "read" THEN 2 ELSE 3

\* mutant: a contact can only move forward, from new to read to replied
UpdateContactStatus_forwardOnly(auth, id, status) ==
    LET rq == [auth |-> auth, id |-> id, status |-> status]
        refused == \/ ~Protect(auth).pass
                   \/ status \notin CONTACT_STATUSES
                   \/ id \notin DOMAIN contacts
    IN
    /\ IF refused \/ StatusRank(status) # StatusRank(contacts[id].status) + 1
       THEN /\ res' = Response("updateContactStatus", 0, rq,
                         IF ~Protect(auth).pass THEN 401 ELSE 400,
                         "Status must be: new, read, or replied", <<>>, {})
            /\ UNCHANGED contacts
       ELSE /\ contacts' = [contacts EXCEPT ![id].status = status]
            /\ res' = Response("updateContactStatus", 0, rq, 200, "", <<>>,
                         {[id |-> id, doc |-> [contacts[id] EXCEPT !.status = status]]})
    /\ UNCHANGED <<seed, server, hits, mail, registrations, contactSeq, admins, adminSeq, issued, now, reg, stats>>

\* mutant: the update is applied to every contact (updateMany without the _id)
UpdateContactStatus_everyContact(auth, id, status) ==
    LET rq == [auth |-> auth, id |-> id, status |-> status]
        refused == \/ ~Protect(auth).pass
                   \/ status \notin CONTACT_STATUSES
                   \/ id \notin DOMAIN contacts
    IN
    /\ IF refused
       THEN /\ res' = Response("updateContactStatus", 0, rq,
                         IF ~Protect(auth).pass THEN 401 ELSE 400,
                         "Status must be: new, read, or replied", <<>>, {})
            /\ UNCHANGED contacts
       ELSE /\ contacts' = [c \in DOMAIN contacts |-> [contacts[c] EXCEPT !.status = status]]
            /\ res' = Response("updateContactStatus", 0, rq, 200, "", <<>>,
                         {[id |-> id, doc |-> [contacts[id] EXCEPT !.status = status]]})
    /\ UNCHANGED <<seed, server, hits, mail, registrations, contactSeq, admins, adminSeq, issued, now, reg, stats>>

\* PATCH /contacts/:id
UpdateContactStatus(auth, id, status) ==
    LET rq == [auth |-> auth, id |-> id, status |-> status]
    IN
    /\ IF ~Protect(auth).pass
       THEN /\ res' = Denied("updateContactStatus", rq)
            /\ UNCHANGED contacts
       ELSE IF status \notin CONTACT_STATUSES
       THEN /\ res' = Response("updateContactStatus", 0, rq, 400,
                         "Status must be: new, read, or replied", <<>>, {})
            /\ UNCHANGED contacts
       ELSE IF ~IsObjectId(id)
       THEN /\ res' = Response("updateContactStatus", 0, rq, 500,
                         "Failed to update contact.", <<>>, {})
            /\ UNCHANGED contacts
       ELSE IF id \notin DOMAIN contacts
       THEN /\ res' = Response("updateContactStatus", 0, rq, 404,
                         "Contact not found.", <<>>, {})
            /\ UNCHANGED contacts
       ELSE /\ contacts' = [contacts EXCEPT ![id].status = status]
            /\ res' = Response("updateContactStatus", 0, rq, 200, "", <<>>,
                         {[id |-> id, doc |-> [contacts[id] EXCEPT !.status = status]]})
    /\ UNCHANGED <<seed, server, hits, mail, registrations, contactSeq, admins, adminSeq, issued, now, reg, stats>>

\* DELETE /contacts/:id
DeleteContact(auth, id) ==
    LET rq == [auth |-> auth, id |-> id]
    IN
    /\ IF ~Protect(auth).pass
       THEN /\ res' = Denied("deleteContact", rq)
            /\ UNCHANGED contacts
       ELSE IF ~IsObjectId(id)
       THEN /\ res' = Response("deleteContact", 0, rq, 500, "Failed to delete contact.",
                         <<>>, {})
            /\ UNCHANGED contacts
       ELSE IF id \notin DOMAIN contacts
       THEN /\ res' = Response("deleteContact", 0, rq, 404, "Contact not found.", <<>>, {})
            /\ UNCHANGED contacts
       ELSE /\ contacts' = [c \in DOMAIN contacts \ {id} |-> contacts[c]]
            /\ res' = Response("deleteContact", 0, rq, 200, "Contact deleted.", <<>>, {})
    /\ UNCHANGED <<seed, server, hits, mail, registrations, contactSeq, admins, adminSeq, issued, now, reg, stats>>

\* GET /registrations: the filter built from the query
RegistrationsMatching(game, mode, status) ==
    {i \in 1..Len(registrations) :
        /\ game \in GAMES => registrations[i].game = game
        /\ mode \in MODES => registrations[i].mode = mode
        /\ status \in REG_STATUSES => registrations[i].status = status}

\* GET /registrations
ListRegistrations(auth, game, mode, status, page, limit) ==
    LET rq == [auth |-> auth, game |-> game, mode |-> mode, status |-> status,
               page |-> page, limit |-> limit]
        at == [i \in 1..Len(registrations) |-> registrations[i].createdAt]
    IN
    /\ \E hit \in NewestFirst(RegistrationsMatching(game, mode, status), at) :
          LET rows == SkipLimit(hit, (page - 1) * limit, limit)
          IN res' = IF ~Protect(auth).pass THEN Denied("listRegistrations", rq)
                    ELSE Response("listRegistrations", 0, rq, 200, "", <<>>,
                           {[rows |-> [i \in 1..Len(rows) |->
                                         [id |-> rows[i], doc |-> registrations[rows[i]]]],
                             pagination |-> Pagination(page, limit, Len(hit))]})
    /\ UNCHANGED <<seed, server, hits, mail, registrations, contacts, contactSeq, admins, adminSeq, issued, now,
                   reg, stats>>

\* mutant: a registration set to rejected is removed from the collection
UpdateRegistrationStatus_dropsRejected(auth, id, status) ==
    LET rq == [auth |-> auth, id |-> id, status |-> status]
        refused == \/ ~Protect(auth).pass
                   \/ status \notin REG_STATUSES
                   \/ id \notin 1..Len(registrations)
    IN
    /\ IF refused
       THEN /\ res' = Response("updateRegistrationStatus", 0, rq,
                         IF ~Protect(auth).pass THEN 401 ELSE 400,
                         "Status must be: pending, approved, or rejected", <<>>, {})
            /\ UNCHANGED registrations
       ELSE /\ registrations' =
                 IF status = "rejected"
                 THEN SubSeq(registrations, 1, id - 1)
                      \o SubSeq(registrations, id + 1, Len(registrations))
                 ELSE [registrations EXCEPT ![id].status = status]
            /\ res' = Response("updateRegistrationStatus", 0, rq, 200, "", <<>>,
                         {[id |-> id, doc |-> [registrations[id] EXCEPT !.status = status]]})
    /\ UNCHANGED <<seed, server, hits, mail, contacts, contactSeq, admins, adminSeq, issued, now, reg, stats>>

\* PATCH /registrations/:id
UpdateRegistrationStatus(auth, id, status) ==
    LET rq == [auth |-> auth, id |-> id, status |-> status]
    IN
    /\ IF ~Protect(auth).pass
       THEN /\ res' = Denied("updateRegistrationStatus", rq)
            /\ UNCHANGED registrations
       ELSE IF status \notin REG_STATUSES
       THEN /\ res' = Response("updateRegistrationStatus", 0, rq, 400,
                         "Status must be: pending, approved, or rejected", <<>>, {})
            /\ UNCHANGED registrations
       ELSE IF ~IsObjectId(id)
       THEN /\ res' = Response("updateRegistrationStatus", 0, rq, 500,
                         "Failed to update registration.", <<>>, {})
            /\ UNCHANGED registrations
       ELSE IF id \notin 1..Len(registrations)
       THEN /\ res' = Response("updateRegistrationStatus", 0, rq, 404,
                         "Registration not found.", <<>>, {})
            /\ UNCHANGED registrations
       ELSE /\ registrations' = [registrations EXCEPT ![id].status = status]
            /\ res' = Response("updateRegistrationStatus", 0, rq, 200, "", <<>>,
                         {[id |-> id, doc |-> [registrations[id] EXCEPT !.status = status]]})
    /\ UNCHANGED <<seed, server, hits, mail, contacts, contactSeq, admins, adminSeq, issued, now, reg, stats>>

----------------------------------------------------------------------------
(* The clock *)

DayMs == 24 * 60 * 60 * 1000

\* the instants at which the model looks at the system
Instants ==
    {0, 600} \cup {d * DayMs + o : d \in {6, 7, 8}, o \in {0 - 1, 0, 600}}

Tick(t) ==
    /\ t > now
    /\ now' = t
    /\ UNCHANGED <<seed, server, hits, mail, registrations, contacts, contactSeq, admins, adminSeq, issued, reg,
                   stats, res>>

----------------------------------------------------------------------------
(* startServer and the health endpoint *)

\* startServer has run and the database is connected
Serving == [pc |-> "listening", db |-> "connected"]

\* the process has just called startServer: mongoose.connect is pending
Booting == [pc |-> "connect", db |-> "connecting"]

\* await mongoose.connect(mongoUri) resolves
ConnectResolves ==
    /\ server.pc = "connect"
    /\ server' = [pc |-> "listen", db |-> "connected"]
    /\ UNCHANGED <<seed, hits, mail, registrations, contacts, contactSeq, admins, adminSeq,
                   issued, now, reg, stats, res>>

\* mutant: a failed connection ends the process
ConnectRejects_exits ==
    /\ server.pc = "connect"
    /\ server' = [pc |-> "exited", db |-> "disconnected"]
    /\ UNCHANGED <<seed, hits, mail, registrations, contacts, contactSeq, admins, adminSeq,
                   issued, now, reg, stats, res>>

\* await mongoose.connect(mongoUri) rejects (server selection times out): the
\* catch block logs and startServer goes on
ConnectRejects ==
    /\ server.pc = "connect"
    /\ server' = [pc |-> "listen", db |-> "disconnected"]
    /\ UNCHANGED <<seed, hits, mail, registrations, contacts, contactSeq, admins, adminSeq,
                   issued, now, reg, stats, res>>

\* app.listen(PORT, ...)
Listen ==
    /\ server.pc = "listen"
    /\ server' = [server EXCEPT !.pc = "listening"]
    /\ UNCHANGED <<seed, hits, mail, registrations, contacts, contactSeq, admins, adminSeq,
                   issued, now, reg, stats, res>>

\* the connection to MongoDB is lost while the server runs
ConnectionDrops ==
    /\ server.db = "connected"
    /\ server' = [server EXCEPT !.db = "disconnected"]
    /\ UNCHANGED <<seed, hits, mail, registrations, contacts, contactSeq, admins, adminSeq,
                   issued, now, reg, stats, res>>

\* GET /api/v1/health
Health ==
    /\ server.pc = "listening"
    /\ res' = Response("health", 0, [at |-> now], 200, "GULLYESPORTS API is running", <<>>,
                 {[success |-> TRUE, timestamp |-> now, database |-> server.db]})
    /\ UNCHANGED <<seed, server, hits, mail, registrations, contacts, contactSeq, admins, adminSeq,
                   issued, now, reg, stats>>

----------------------------------------------------------------------------
(* Initial state: empty collections, no handler running, the server up *)

Init ==
    /\ registrations = <<>>
    /\ contacts = <<>>
    /\ contactSeq = 0
    /\ admins = <<>>
    /\ adminSeq = 0
    /\ issued = {}
    /\ now = 0
    /\ reg = [p \in Handlers |-> IdleHandler]
    /\ stats = IdleStats
    /\ mail = {}
    /\ hits = [api |-> [c \in Clients |-> NoHits], login |-> [c \in Clients |-> NoHits]]
    /\ server = Serving
    /\ seed = [r \in Seeders |-> IdleSeeder]
    /\ res = NoResponse

----------------------------------------------------------------------------
(* The requests the environment sends *)

Alpha == <<"A", "l", "p", "h", "a">>
Txn1 == <<"U", "P", "I", "0", "1">>
Txn2 == <<"U", "P", "I", "0", "2">>

GoodPlayer == [inGameName |-> <<"P">>, inGameId |-> <<"7">>, phone |-> <<"9">>]
Roster(n) == [isArray |-> TRUE, items |-> [i \in 1..n |-> GoodPlayer]]

RegisterBody(game, mode, teamName, players, transactionId, entryFee, status) ==
    [game |-> game, mode |-> mode, teamName |-> teamName, players |-> players,
     transactionId |-> transactionId, entryFee |-> entryFee, status |-> status]

\* a token signed with another secret, and the headers a client can present
ForgedToken == [id |-> 1, iat |-> 0, exp |-> TokenLifetime, sig |-> "forged"]
AuthHeaders ==
    {NoAuthorization, Bearer(ForgedToken)} \cup {Bearer(t) : t \in issued}

\* the _ids in use and one that matches no document
RegistrationIds == 1..(Len(registrations) + 1)
ContactIds == 1..(contactSeq + 1)

\* well-formed registrations that differ in mode and in the fee and status
\* fields the client adds to the body
FeeBodies ==
    {RegisterBody("pubg", m, JsString(Alpha), Roster(PLAYER_COUNT[m]), x[1], x[2], x[3]) :
        m \in MODES, x \in {<<Txn1, 999, "approved">>, <<Txn2, 0, "">>}}

FeeNext ==
    \/ \E b \in FeeBodies : RegisterReceive(1, b)
    \/ RegisterFindOne(1)
    \/ RegisterSave(1)
    \/ SeedAdmin
    \/ Login(ADMIN_EMAIL, ADMIN_PASSWORD)
    \/ \E auth \in AuthHeaders, id \in RegistrationIds, s \in REG_STATUSES \cup {""} :
          UpdateRegistrationStatus(auth, id, s)

\* registrations with client-supplied fee and status fields, and admin status updates
SpecFee == Init /\ [][FeeNext]_vars

----------------------------------------------------------------------------
(* Claims about the fee and the status of stored registrations *)

\* the Fee & Roster Policy table of the specification
PolicyFee(mode) ==
    CASE mode = "solo" -> 5 [] mode = "duo" -> 10 [] mode = "squad" -> 20

\* a request presents a token that was issued, has not expired and names an
\* existing account
HoldsValidToken(auth) ==
    /\ auth.present
    /\ auth.token \in issued
    /\ now < auth.token.exp * 1000
    /\ auth.token.id \in DOMAIN admins

\* C1: every stored registration's entryFee is the policy fee of its stored mode,
\* whatever fee the request body carried, and no step changes the entryFee or
\* the mode of a stored registration.
C1_EntryFeeIsPolicyFee ==
    /\ [](\A i \in 1..Len(registrations) :
            registrations[i].entryFee = PolicyFee(registrations[i].mode))
    /\ [][\A i \in 1..Len(registrations) :
            /\ i <= Len(registrations')
            /\ registrations'[i].entryFee = registrations[i].entryFee
            /\ registrations'[i].mode = registrations[i].mode]_vars

\* a duo registration whose body asked for a fee of 999 is stored with fee 10
C1_Witness ==
    /\ res.op = "register"
    /\ res.status = 201
    /\ res.req.entryFee = 999
    /\ res.req.mode = "duo"
    /\ \E d \in res.data : registrations[d.registrationId].entryFee = 10

\* C7: a registration is created with status pending whatever status the body
\* carries, and the status of a stored registration changes only in a step that
\* answers 200 to an updateRegistrationStatus request holding a valid token.
C7_StatusPendingThenAdminOnly ==
    [][/\ \A i \in 1..Len(registrations') :
            i > Len(registrations) => registrations'[i].status = "pending"
       /\ \A i \in 1..Len(registrations) :
            /\ i <= Len(registrations')
            /\ registrations'[i].status # registrations[i].status =>
                 /\ res'.op = "updateRegistrationStatus"
                 /\ res'.status = 200
                 /\ res'.req.id = i
                 /\ HoldsValidToken(res'.req.auth)]_vars

\* a registration whose body carried status approved is stored as pending
C7_Witness ==
    /\ res.op = "register"
    /\ res.status = 201
    /\ res.req.status = "approved"
    /\ \E d \in res.data : registrations[d.registrationId].status = "pending"

----------------------------------------------------------------------------
(* Concurrent submissions *)

Txn1Padded == <<" ">> \o Txn1 \o <<" ">>

\* well-formed registrations that compete for transaction ids
RaceBodies ==
    {RegisterBody("pubg", "solo", Undefined, Roster(1), t, 0, "") :
        t \in {Txn1, Txn1Padded, Txn2}}
    \cup {RegisterBody("cod", "duo", JsString(Alpha), Roster(2), t, 0, "") :
        t \in {Txn1, Txn2}}

RaceNext ==
    \/ \E p \in Handlers, b \in RaceBodies : RegisterReceive(p, b)
    \/ \E p \in Handlers : RegisterFindOne(p)
    \/ \E p \in Handlers : RegisterSave(p)

\* concurrent well-formed registrations
SpecRace == Init /\ [][RaceNext]_vars

\* a registration with this transaction id is stored
TransactionStored(txn) ==
    \E i \in 1..Len(registrations) : registrations[i].transactionId = txn

\* the handler's request passes every check other than the one on transactionId
OtherwiseValid(h) ==
    /\ Len(h.body.players.items) >= PLAYER_COUNT[h.body.mode]
    /\ (h.body.mode \in {"duo", "squad"} => ~Falsy(h.body.teamName))
    /\ \A i \in 1..Len(h.body.players.items) :
         /\ Len(h.body.players.items[i].inGameName) <= 50
         /\ Len(h.body.players.items[i].inGameId) <= 30

\* C2: a well-formed submission whose handler takes its step (the lookup, or the
\* write) when a registration with the same transactionId is already stored is
\* answered 409, and nothing is stored for it.
C2_SecondWriteConflicts ==
    [][\A p \in Handlers :
          (/\ reg[p].pc \in {"findOne", "save"}
           /\ reg'[p] # reg[p]
           /\ OtherwiseValid(reg[p])
           /\ TransactionStored(reg[p].body.transactionId))
          => /\ res'.op = "register"
             /\ res'.to = p
             /\ res'.status = 409
             /\ reg'[p].pc = "idle"
             /\ registrations' = registrations]_vars

\* a handler passed the lookup, lost the race for the write and answered 409
\* from its catch block
C2_Witness ==
    /\ res.op = "register"
    /\ res.status = 409
    /\ res.message = "This transaction ID has already been used for another registration."
    /\ TransactionStored(Trim(res.req.transactionId))

\* C3: no two stored registrations have the same transactionId, and a well-formed
\* submission whose write finds no registration with its transactionId is stored:
\* of the concurrent submissions of one fresh transactionId exactly one is stored.
C3_TransactionIdUnique ==
    /\ [](\A i, j \in 1..Len(registrations) :
            registrations[i].transactionId = registrations[j].transactionId => i = j)
    /\ [][\A p \in Handlers :
            (/\ reg[p].pc = "save"
             /\ reg'[p] # reg[p]
             /\ OtherwiseValid(reg[p])
             /\ ~TransactionStored(reg[p].body.transactionId))
            => /\ Len(registrations') = Len(registrations) + 1
               /\ registrations'[Len(registrations')].transactionId =
                    reg[p].body.transactionId
               /\ res'.status = 201]_vars

\* every handler has submitted the same transactionId, all have answered, the last
\* one from its catch block, and exactly one registration is stored
C3_Witness ==
    /\ \A p \in Handlers : reg[p].pc = "idle"
    /\ res.op = "register"
    /\ res.status = 409
    /\ res.message = "This transaction ID has already been used for another registration."
    /\ Cardinality({i \in 1..Len(registrations) :
                      registrations[i].transactionId = Txn1}) = 1
    /\ Len(registrations) = 1

----------------------------------------------------------------------------
(* Rosters and team names *)

Spaces == <<" ", " ">>

TeamNames ==
    {Undefined, Null, JsString(<<>>), JsString(Spaces), JsString(Alpha),
     JsString(<<" ">> \o Alpha), JsString(Rep("t", 50)), JsString(Rep("t", 51))}

LongNamePlayer == [GoodPlayer EXCEPT !.inGameName = Rep("n", 51)]

\* registrations of every mode with rosters of 0 to 6 players, with every kind
\* of team name, and one whose player name the schema refuses
RosterBodies ==
    {RegisterBody("freefire", m, JsString(Alpha), Roster(n), Txn1, 0, "") :
        m \in MODES, n \in 0..(MaxPlayers + 1)}
    \cup {RegisterBody("freefire", m, tn, Roster(PLAYER_COUNT[m]), Txn2, 0, "") :
        m \in MODES, tn \in TeamNames}
    \cup {RegisterBody("freefire", "solo", Undefined,
                       [isArray |-> TRUE, items |-> <<LongNamePlayer>>], Txn1, 0, "")}

RosterNext ==
    \/ \E b \in RosterBodies : RegisterReceive(1, b)
    \/ RegisterFindOne(1)
    \/ RegisterSave(1)

\* registrations submitted one after the other
SpecRoster == Init /\ [][RosterNext]_vars

\* the Fee & Roster Policy table of the specification
RequiredPlayers(mode) ==
    CASE mode = "solo" -> 1 [] mode = "duo" -> 2 [] mode = "squad" -> 4

\* no team name: the field is absent, null, empty or blank
TeamNameBlank(t) == t.type \in {"undefined", "null"} \/ Trim(t.str) = <<>>

\* a team name of 1 to 50 characters that is not blank
TeamNameGiven(t) == t.type = "string" /\ Trim(t.str) # <<>> /\ Len(t.str) <= 50

\* the body is valid in every field but, possibly, its roster length and team name
ValidApartFromRosterAndTeam(b) ==
    /\ b.game \in {"pubg", "freefire", "cod"}
    /\ b.mode \in {"solo", "duo", "squad"}
    /\ b.players.isArray
    /\ \A i \in 1..Len(b.players.items) :
         /\ Trim(b.players.items[i].inGameName) # <<>>
         /\ Len(b.players.items[i].inGameName) <= 50
         /\ Trim(b.players.items[i].inGameId) # <<>>
         /\ Len(b.players.items[i].inGameId) <= 30
         /\ Trim(b.players.items[i].phone) # <<>>
    /\ Len(Trim(b.transactionId)) >= 5

\* this step sends the response to a registration whose transactionId is not stored
AnswersFreshRegistration ==
    /\ res' # res
    /\ res'.op = "register"
    /\ ~TransactionStored(Trim(res'.req.transactionId))

C6_TeamNameRequiredForTeams ==
    [][(/\ AnswersFreshRegistration
        /\ ValidApartFromRosterAndTeam(res'.req)
        /\ Len(res'.req.players.items) = RequiredPlayers(res'.req.mode)
        /\ (TeamNameBlank(res'.req.teamName) \/ TeamNameGiven(res'.req.teamName)))
       => /\ (res'.req.mode # "solo" /\ TeamNameBlank(res'.req.teamName))
               => (res'.status = 400 /\ registrations' = registrations)
          /\ (res'.req.mode # "solo" /\ TeamNameGiven(res'.req.teamName))
               => (res'.status = 201 /\ Len(registrations') = Len(registrations) + 1)
          /\ res'.req.mode = "solo"
               => (res'.status = 201 /\ Len(registrations') = Len(registrations) + 1)]_vars

\* a duo registration whose team name is two spaces is answered 400
C6_Witness ==
    /\ res.op = "register"
    /\ res.status = 400
    /\ res.message = "Team name is required for duo and squad modes."
    /\ res.req.mode = "duo"
    /\ res.req.teamName = JsString(Spaces)
    /\ registrations = <<>>

----------------------------------------------------------------------------
(* Sessions: login and the token check over time *)

LoginEmails == {"", "not-an-email", ADMIN_EMAIL, "nobody@example.com"}
LoginPasswords == {"", ADMIN_PASSWORD, "wrong-password"}

SessionNext ==
    \/ SeedAdmin
    \/ \E e \in LoginEmails, pw \in LoginPasswords : Login(e, pw)
    \/ \E t \in Instants : Tick(t)
    \/ \E auth \in AuthHeaders : Me(auth)

\* logins and token checks as time passes
SpecSession == Init /\ [][SessionNext]_vars

SevenDaysMs == 7 * DayMs

\* the instant a token records as its issue time, on the clock's scale
IssuedAt(token) == token.iat * 1000

\* C9: a token issued at T for an existing account passes the token check at
\* every time before T + 7 days and is answered 401 at every time after
\* T + 7 days.  T is the issue time the token records (iat, whole seconds).
C9_TokenValidSevenDays ==
    [][(/\ res' # res
        /\ res'.op = "me"
        /\ res'.req.auth.present
        /\ res'.req.auth.token \in issued
        /\ res'.req.auth.token.id \in DOMAIN admins)
       => /\ now < IssuedAt(res'.req.auth.token) + SevenDaysMs => res'.status = 200
          /\ now > IssuedAt(res'.req.auth.token) + SevenDaysMs => res'.status = 401]_vars

\* a token is refused as expired eight days after it was issued, its account
\* still existing
C9_Witness ==
    /\ res.op = "me"
    /\ res.status = 401
    /\ res.message = "Token expired. Please login again."
    /\ res.req.auth.token \in issued
    /\ res.req.auth.token.id \in DOMAIN admins
    /\ now = IssuedAt(res.req.auth.token) + 8 * DayMs

\* C10: a login with a well-formed email and a non-empty password gets the same
\* answer, 401 "Invalid email or password." and nothing else, when no account has
\* the email and when the account's password differs.
C10_LoginFailuresUniform ==
    [][(/\ res' # res
        /\ res'.op = "login"
        /\ res'.req.email \in WellFormedEmails
        /\ res'.req.password # ""
        /\ \A a \in DOMAIN admins :
              admins[a].email = res'.req.email
                  => admins[a].password # [bcrypt |-> res'.req.password])
       => /\ res'.status = 401
          /\ res'.message = "Invalid email or password."
          /\ res'.errors = <<>>
          /\ res'.data = {}]_vars

\* the admin's email with a wrong password is answered 401
C10_Witness ==
    /\ res.op = "login"
    /\ res.status = 401
    /\ res.req.email = ADMIN_EMAIL
    /\ res.req.password = "wrong-password"
    /\ \E a \in DOMAIN admins : admins[a].email = ADMIN_EMAIL

----------------------------------------------------------------------------
(* The admin operations behind the token check *)

ValidContact ==
    [name |-> Rep("a", 4), email |-> "john@example.com", phone |-> Undefined,
     subject |-> "payment", message |-> Rep("m", 12)]

ValidRegistration ==
    RegisterBody("pubg", "solo", Undefined, Roster(1), Txn1, 0, "")

\* the clock is read when a token is issued and again well after it has expired
AdminInstants == {8 * DayMs}

ADMIN_OPS ==
    {"me", "stats", "listContacts", "updateContactStatus", "deleteContact",
     "listRegistrations", "updateRegistrationStatus"}

AdminNext ==
    \/ SeedAdmin
    \/ \E a \in DOMAIN admins : DeleteAdminManually(a)
    \/ Login(ADMIN_EMAIL, ADMIN_PASSWORD)
    \/ \E t \in AdminInstants : Tick(t)
    \/ contactSeq < AdminContacts /\ SubmitContact(ValidContact)
    \/ RegisterReceive(1, ValidRegistration)
    \/ RegisterFindOne(1)
    \/ RegisterSave(1)
    \/ \E auth \in AuthHeaders : Me(auth)
    \/ \E auth \in AuthHeaders : StatsCount(auth)
    \/ StatsRevenue
    \/ \E auth \in AuthHeaders : ListContacts(auth, "new", 1, 20)
    \/ \E auth \in AuthHeaders, id \in ContactIds : UpdateContactStatus(auth, id, "read")
    \/ \E auth \in AuthHeaders, id \in ContactIds : DeleteContact(auth, id)
    \/ \E auth \in AuthHeaders : ListRegistrations(auth, "", "", "pending", 1, 20)
    \/ \E auth \in AuthHeaders, id \in RegistrationIds :
          UpdateRegistrationStatus(auth, id, "approved")

\* the admin routes, with accounts coming and going and tokens expiring
SpecAdmin == Init /\ [][AdminNext]_vars

\* the request carries a token that was issued, has not expired, and whose
\* account still exists
Authenticated(auth) ==
    /\ auth.present
    /\ auth.token \in issued
    /\ now < IssuedAt(auth.token) + SevenDaysMs
    /\ auth.token.id \in DOMAIN admins

\* C8: each of the seven admin operations, called with no token, a token with a
\* bad signature, an expired token, or a token whose account no longer exists,
\* answers 401 with no data and leaves contacts and registrations as they were.
\* The token is judged when the request arrives: for stats that is the step
\* taken from the idle handler, its later step answers a request already let in.
C8_AdminOpsNeedValidToken ==
    [][(/\ res' # res \/ contacts' # contacts \/ registrations' # registrations
        /\ res'.op \in ADMIN_OPS
        /\ res'.op = "stats" => stats.pc = "idle"
        /\ ~Authenticated(res'.req.auth))
       => /\ res'.status = 401
          /\ res'.data = {}
          /\ contacts' = contacts
          /\ registrations' = registrations]_vars

\* a delete is refused because the token's account is gone; the contact stays
C8_Witness ==
    /\ res.op = "deleteContact"
    /\ res.status = 401
    /\ res.message = "Admin account not found."
    /\ res.req.id \in DOMAIN contacts

----------------------------------------------------------------------------
(* Revenue on the dashboard *)

StatsBodies ==
    {RegisterBody("pubg", "solo", Undefined, Roster(1), Txn1, 0, ""),
     RegisterBody("cod", "squad", JsString(Alpha), Roster(4), Txn2, 0, "")}

StatsNext ==
    \/ \E b \in StatsBodies : RegisterReceive(1, b)
    \/ RegisterFindOne(1)
    \/ RegisterSave(1)
    \/ SeedAdmin
    \/ Login(ADMIN_EMAIL, ADMIN_PASSWORD)
    \/ \E t \in issued, id \in RegistrationIds, s \in REG_STATUSES :
          UpdateRegistrationStatus(Bearer(t), id, s)
    \/ \E auth \in AuthHeaders : StatsCount(auth)
    \/ StatsRevenue

\* registrations of different fees moved between the statuses while the
\* dashboard is read
SpecStats == Init /\ [][StatsNext]_vars

RECURSIVE FeesOfApproved(_)
\* the entryFee of the first n stored registrations, those not approved counted as zero
FeesOfApproved(n) ==
    IF n = 0 THEN 0
    ELSE (IF registrations[n].status = "approved" THEN registrations[n].entryFee ELSE 0)
         + FeesOfApproved(n - 1)

\* C11: the revenue stats() returns is the sum of entryFee over exactly the
\* approved registrations of the store it reads; pending and rejected ones add
\* nothing, also after having been approved before.
C11_RevenueIsApprovedFees ==
    [][(stats.pc = "revenue" /\ stats'.pc = "idle")
       => /\ res'.op = "stats"
          /\ res'.status = 200
          /\ res'.data # {}
          /\ \A d \in res'.data : d.revenue = FeesOfApproved(Len(registrations))]_vars

\* the dashboard shows the squad fee alone: the solo registration was approved
\* and then rejected again
C11_Witness ==
    /\ res.op = "stats"
    /\ res.status = 200
    /\ \E d \in res.data : d.revenue = 20 /\ d.counts.approvedRegistrations = 1
    /\ \E i \in 1..Len(registrations) :
          registrations[i].entryFee = 5 /\ registrations[i].status = "rejected"

----------------------------------------------------------------------------
(* Notifications *)

ShortMessageContact == [ValidContact EXCEPT !.message = Rep("m", 3)]

NotifyNext ==
    \/ \E b \in StatsBodies : RegisterReceive(1, b)
    \/ RegisterFindOne(1)
    \/ RegisterSave(1)
    \/ \E b \in {ValidContact, ShortMessageContact} : SubmitContact(b)
    \/ \E m \in mail, outcome \in MAIL_OUTCOMES : MailSettle(m, outcome)

\* public submissions and the notifications they dispatch, settling in any
\* order, at any time, or never
SpecNotify == Init /\ [][NotifyNext]_vars

\* C12: the step that persists a registration or a contact message answers 201
\* while its notification is still pending, and a notification settling, as
\* sent, failed or rejected, changes neither the response nor the stores.
C12_NotificationNeverChangesResponse ==
    [][/\ Len(registrations') > Len(registrations)
          => /\ res'.op = "register" /\ res'.status = 201
             /\ \E m \in mail' \ mail :
                   /\ m.kind = "registration" /\ m.id = Len(registrations')
                   /\ m.state = "pending"
                   /\ mail' = mail \cup {m}
       /\ contactSeq' > contactSeq
          => /\ res'.op = "contact" /\ res'.status = 201
             /\ \E m \in mail' \ mail :
                   /\ m.kind = "contact" /\ m.id = contactSeq'
                   /\ m.state = "pending"
                   /\ mail' = mail \cup {m}
       /\ (Cardinality(mail') = Cardinality(mail) /\ mail' # mail)
          => /\ res' = res
             /\ registrations' = registrations
             /\ contacts' = contacts]_vars

\* the caller of a registration holds its 201 although the notification for
\* it was rejected
C12_Witness ==
    /\ res.op = "register"
    /\ res.status = 201
    /\ \E d \in res.data :
          /\ \E m \in mail : /\ m.kind = "registration" /\ m.id = d.registrationId
                              /\ m.state = "rejected"
          /\ d.registrationId \in 1..Len(registrations)

----------------------------------------------------------------------------
(* The life of a contact message *)

OtherContact ==
    [name |-> Rep("b", 2), email |-> "John@Example.com", phone |-> JsString(<<"9", "8">>),
     subject |-> "report", message |-> Rep("r", 10)]

ContactIdsAndMalformed == ContactIds \cup {MalformedId}

ContactsNext ==
    \/ \E b \in {ValidContact, OtherContact} : SubmitContact(b)
    \/ RegisterReceive(1, ValidRegistration)
    \/ RegisterFindOne(1)
    \/ RegisterSave(1)
    \/ SeedAdmin
    \/ Login(ADMIN_EMAIL, ADMIN_PASSWORD)
    \/ \E auth \in AuthHeaders, id \in ContactIds, s \in CONTACT_STATUSES :
          UpdateContactStatus(auth, id, s)
    \/ \E t \in issued, id \in ContactIds : DeleteContact(Bearer(t), id)

\* contact messages and a registration submitted, the contacts moved between
\* statuses and deleted
SpecContacts == Init /\ [][ContactsNext]_vars

\* C13: a contact message is created with status new, and an authenticated
\* updateContactStatus to new, read or replied on a stored contact answers 200
\* and sets that status, whatever the status was before.
C13_ContactStatusFreelySettable ==
    [][/\ contactSeq' > contactSeq => contacts'[contactSeq'].status = "new"
       /\ (/\ res' # res
           /\ res'.op = "updateContactStatus"
           /\ Authenticated(res'.req.auth)
           /\ res'.req.status \in {"new", "read", "replied"}
           /\ res'.req.id \in DOMAIN contacts)
          => /\ res'.status = 200
             /\ res'.req.id \in DOMAIN contacts'
             /\ contacts'[res'.req.id].status = res'.req.status]_vars

\* an update has set a contact to new while another contact stands at replied
C13_Witness ==
    /\ res.op = "updateContactStatus"
    /\ res.status = 200
    /\ res.req.status = "new"
    /\ res.req.id \in DOMAIN contacts
    /\ contacts[res.req.id].status = "new"
    /\ \E c \in DOMAIN contacts : contacts[c].status = "replied"

\* the fields of a contact that the sender wrote
Written(doc) ==
    [name |-> doc.name, email |-> doc.email, phone |-> doc.phone,
     subject |-> doc.subject, message |-> doc.message]

\* C15: a stored contact keeps its name, email, phone, subject and message in
\* every step that does not delete it; updateContactStatus changes the status
\* of the contact addressed and nothing else in either store; a public
\* submission neither alters nor removes a stored contact.
C15_ContactWrittenOnce ==
    [][/\ \A c \in DOMAIN contacts \cap DOMAIN contacts' :
             Written(contacts'[c]) = Written(contacts[c])
       /\ (res' # res /\ res'.op = "updateContactStatus")
          => /\ DOMAIN contacts' = DOMAIN contacts
             /\ \A c \in DOMAIN contacts : c # res'.req.id => contacts'[c] = contacts[c]
             /\ registrations' = registrations
       /\ (res'.op \in {"contact", "register"} \/ reg' # reg)
          => \A c \in DOMAIN contacts : c \in DOMAIN contacts' /\ contacts'[c] = contacts[c]]_vars

\* one contact was moved to replied while another, and a registration, are
\* stored beside it untouched
C15_Witness ==
    /\ res.op = "updateContactStatus"
    /\ res.status = 200
    /\ res.req.status = "replied"
    /\ \E c \in DOMAIN contacts :
          c # res.req.id /\ contacts[c].status = "new" /\ contacts[c].name = Rep("b", 2)
    /\ Len(registrations) = 1

----------------------------------------------------------------------------
(* Every route at once *)

\* the headers of a caller without a token and of the logged-in admin
CallerHeaders == {NoAuthorization} \cup {Bearer(t) : t \in issued}

EveryRouteNext ==
    \/ \E b \in StatsBodies : RegisterReceive(1, b)
    \/ RegisterFindOne(1)
    \/ RegisterSave(1)
    \/ contactSeq < AdminContacts /\ SubmitContact(ValidContact)
    \/ SeedAdmin
    \/ Login(ADMIN_EMAIL, ADMIN_PASSWORD)
    \/ \E auth \in CallerHeaders : Me(auth)
    \/ \E auth \in CallerHeaders : StatsCount(auth)
    \/ StatsRevenue
    \/ \E auth \in CallerHeaders : ListContacts(auth, "", 1, 20)
    \/ \E auth \in CallerHeaders, id \in ContactIds : UpdateContactStatus(auth, id, "read")
    \/ \E auth \in CallerHeaders, id \in ContactIds : DeleteContact(auth, id)
    \/ \E auth \in CallerHeaders : ListRegistrations(auth, "", "", "", 1, 20)
    \/ \E auth \in CallerHeaders, id \in RegistrationIds :
          UpdateRegistrationStatus(auth, id, "rejected")

\* the public and the admin routes, called in any order
SpecEveryRoute == Init /\ [][EveryRouteNext]_vars

\* what identifies a stored registration and never changes
Identity(doc) ==
    [game |-> doc.game, mode |-> doc.mode, teamName |-> doc.teamName,
     players |-> doc.players, transactionId |-> doc.transactionId,
     entryFee |-> doc.entryFee, createdAt |-> doc.createdAt]

\* C14: no step removes a registration: every registration stored before a
\* step is stored after it, under the same _id and with the same content apart
\* from its status.
C14_RegistrationsOnlyGrow ==
    [][/\ Len(registrations') >= Len(registrations)
       /\ \A i \in 1..Len(registrations) :
             Identity(registrations'[i]) = Identity(registrations[i])]_vars

\* a rejected registration is still stored after a contact has been deleted
\* and a later registration added
C14_Witness ==
    /\ Len(registrations) = 2
    /\ registrations[1].status = "rejected"
    /\ contactSeq = 1
    /\ contacts = <<>>

----------------------------------------------------------------------------
(* Status updates that are refused *)

\* req.body.status: absent, outside both enums, and values of the enums
UpdateStatuses == {"", "archived", "read", "approved"}

RegistrationIdsAndMalformed == RegistrationIds \cup {MalformedId}

StatusUpdateNext ==
    \/ SubmitContact(ValidContact)
    \/ RegisterReceive(1, ValidRegistration)
    \/ RegisterFindOne(1)
    \/ RegisterSave(1)
    \/ SeedAdmin
    \/ Login(ADMIN_EMAIL, ADMIN_PASSWORD)
    \/ \E auth \in CallerHeaders, id \in ContactIdsAndMalformed, s \in UpdateStatuses :
          UpdateContactStatus(auth, id, s)
    \/ \E auth \in CallerHeaders, id \in RegistrationIdsAndMalformed, s \in UpdateStatuses :
          UpdateRegistrationStatus(auth, id, s)
    \/ \E t \in issued, id \in ContactIds : DeleteContact(Bearer(t), id)

\* both PATCH routes called with every kind of status and of id
SpecStatusUpdate == Init /\ [][StatusUpdateNext]_vars

\* the enum a status-update route accepts, and the _ids stored behind it
AcceptedStatuses(op) ==
    IF op = "updateContactStatus" THEN CONTACT_STATUSES ELSE REG_STATUSES

StoredIds(op) ==
    IF op = "updateContactStatus" THEN DOMAIN contacts ELSE 1..Len(registrations)

\* C16: an authenticated updateContactStatus or updateRegistrationStatus with
\* a status that is missing or outside the enum answers 400 whatever the id,
\* and with a status of the enum and an id that matches no stored record
\* answers 404; in both cases no record is changed or created.
C16_RefusedUpdates ==
    [][(/\ res' # res
        /\ res'.op \in {"updateContactStatus", "updateRegistrationStatus"}
        /\ Authenticated(res'.req.auth))
       => /\ res'.req.status \notin AcceptedStatuses(res'.op)
             => /\ res'.status = 400
                /\ contacts' = contacts
                /\ registrations' = registrations
          /\ (/\ res'.req.status \in AcceptedStatuses(res'.op)
              /\ res'.req.id \notin StoredIds(res'.op))
             => /\ res'.status = 404
                /\ contacts' = contacts
                /\ registrations' = registrations]_vars

\* an authenticated update with a status of the enum and an id that is no
\* ObjectId was answered 500
C16_Witness ==
    /\ res.op \in {"updateContactStatus", "updateRegistrationStatus"}
    /\ Authenticated(res.req.auth)
    /\ res.req.status \in AcceptedStatuses(res.op)
    /\ res.req.id = MalformedId
    /\ res.status = 500

\* what does hold of the refused updates: the 400 is decided before the id is
\* looked at, and an _id that is an ObjectId and matches no record answers 404
C16_RefusedUpdatesOfObjectIds ==
    [][(/\ res' # res
        /\ res'.op \in {"updateContactStatus", "updateRegistrationStatus"}
        /\ Authenticated(res'.req.auth))
       => /\ res'.req.status \notin AcceptedStatuses(res'.op)
             => /\ res'.status = 400
                /\ contacts' = contacts
                /\ registrations' = registrations
          /\ (/\ res'.req.status \in AcceptedStatuses(res'.op)
              /\ IsObjectId(res'.req.id)
              /\ res'.req.id \notin StoredIds(res'.op))
             => /\ res'.status = 404
                /\ contacts' = contacts
                /\ registrations' = registrations]_vars

----------------------------------------------------------------------------
(* Deleting a contact *)

DeleteNext ==
    \/ \E b \in {ValidContact, OtherContact} : SubmitContact(b)
    \/ SeedAdmin
    \/ Login(ADMIN_EMAIL, ADMIN_PASSWORD)
    \/ \E auth \in CallerHeaders, id \in ContactIdsAndMalformed, s \in {"", "read"} :
          UpdateContactStatus(auth, id, s)
    \/ \E auth \in CallerHeaders, id \in ContactIdsAndMalformed : DeleteContact(auth, id)
    \/ \E t \in issued, s \in {"", "new"} : ListContacts(Bearer(t), s, 1, 20)
    \/ \E t \in issued : StatsCount(Bearer(t))
    \/ StatsRevenue

\* contacts submitted, updated, deleted, listed and counted
SpecDelete == Init /\ [][DeleteNext]_vars

\* the _ids of the contacts that were stored once and have been deleted
DeletedContacts == (1..contactSeq) \ DOMAIN contacts

\* the _ids on a page of a listing
RowIds(rows) == {rows[i].id : i \in 1..Len(rows)}

\* absent for good: a deleted contact is never stored again, is on no page of
\* a listing and is not among the contacts the dashboard counts
DeletedStaysDeleted ==
    /\ \A c \in DeletedContacts : c \notin DOMAIN contacts'
    /\ (res' # res /\ res'.op = "listContacts" /\ res'.status = 200)
       => \A d \in res'.data : RowIds(d.rows) \cap DeletedContacts = {}
    /\ (stats.pc = "idle" /\ stats'.pc = "revenue")
       => stats'.counts.totalContacts = Cardinality((1..contactSeq) \ DeletedContacts)
    /\ (/\ res' # res
        /\ res'.op \in {"updateContactStatus", "deleteContact"}
        /\ Authenticated(res'.req.auth)
        /\ res'.op = "updateContactStatus" => res'.req.status \in CONTACT_STATUSES
        /\ res'.req.id \in DeletedContacts)
       => res'.status = 404 /\ contacts' = contacts

\* C17: a contact deleted by an authenticated deleteContact stays absent: no
\* listing shows it, stats does not count it, a later updateContactStatus or
\* deleteContact on its id answers 404 and does not recreate it; and a
\* deleteContact on an id that matches no contact answers 404 and leaves the
\* store unchanged.
C17_DeleteIsPermanent ==
    [][/\ DeletedStaysDeleted
       /\ (/\ res' # res
           /\ res'.op = "deleteContact"
           /\ Authenticated(res'.req.auth)
           /\ res'.req.id \notin DOMAIN contacts)
          => res'.status = 404 /\ contacts' = contacts]_vars

\* a contact has been deleted and a deleteContact on an id that is no ObjectId
\* was answered 500
C17_Witness ==
    /\ DeletedContacts # {}
    /\ res.op = "deleteContact"
    /\ Authenticated(res.req.auth)
    /\ res.req.id = MalformedId
    /\ res.status = 500

\* what does hold of deleteContact: the deletion is permanent, and an _id that
\* is an ObjectId and matches no contact answers 404
C17_DeleteIsPermanentForObjectIds ==
    [][/\ DeletedStaysDeleted
       /\ (/\ res' # res
           /\ res'.op = "deleteContact"
           /\ Authenticated(res'.req.auth)
           /\ IsObjectId(res'.req.id)
           /\ res'.req.id \notin DOMAIN contacts)
          => res'.status = 404 /\ contacts' = contacts]_vars

----------------------------------------------------------------------------
(* Reading the listings page by page *)

\* req.query of GET /registrations: no filter, filters of the enums, and
\* values outside them
RegistrationFilters ==
    {<<"", "", "">>, <<"pubg", "", "pending">>, <<"chess", "hexa", "done">>}

\* req.query.status of GET /contacts
ContactFilters == {"", "new", "archived"}

Pages == 1..3
Limits == 1..2

PagesNext ==
    \/ SubmitContact(ValidContact)
    \/ \E b \in StatsBodies : RegisterReceive(1, b)
    \/ RegisterFindOne(1)
    \/ RegisterSave(1)
    \/ Tick(600)
    \/ SeedAdmin
    \/ Login(ADMIN_EMAIL, ADMIN_PASSWORD)
    \/ \E t \in issued, id \in DOMAIN contacts : UpdateContactStatus(Bearer(t), id, "read")
    \/ \E t \in issued, f \in ContactFilters, page \in Pages, limit \in Limits :
          ListContacts(Bearer(t), f, page, limit)
    \/ \E t \in issued, f \in RegistrationFilters, page \in Pages, limit \in Limits :
          ListRegistrations(Bearer(t), f[1], f[2], f[3], page, limit)

\* records stored at one instant or at two, and the listings read page by page
SpecPages == Init /\ [][PagesNext]_vars

LIST_OPS == {"listContacts", "listRegistrations"}

\* the collection a listing reads
Listed(op) == IF op = "listContacts" THEN contacts ELSE registrations

\* whether a record is in the matching set of a listing request: a filter
\* value outside its enum counts as no filter
Matches(op, rq, doc) ==
    IF op = "listContacts"
    THEN rq.status \in {"new", "read", "replied"} => doc.status = rq.status
    ELSE /\ rq.game \in {"pubg", "freefire", "cod"} => doc.game = rq.game
         /\ rq.mode \in {"solo", "duo", "squad"} => doc.mode = rq.mode
         /\ rq.status \in {"pending", "approved", "rejected"} => doc.status = rq.status

MatchingSet(op, rq) == {i \in DOMAIN Listed(op) : Matches(op, rq, Listed(op)[i])}

\* a page as the listing should return it: total and page count right, and
\* the rows the records at positions skip+1 .. skip+limit of the matching set
\* in an order from newest to oldest
PageIsRight(op, rq, d) ==
    LET docs == Listed(op)
        M == MatchingSet(op, rq)
        total == Cardinality(M)
        skip == (rq.page - 1) * rq.limit
        left == IF total > skip THEN total - skip ELSE 0
    IN
    /\ d.pagination.total = total
    /\ d.pagination.pages * rq.limit >= total
    /\ (d.pagination.pages - 1) * rq.limit < total
    /\ Len(d.rows) = IF left < rq.limit THEN left ELSE rq.limit
    /\ \A i \in 1..Len(d.rows) :
          /\ d.rows[i].id \in M
          /\ d.rows[i].doc = docs[d.rows[i].id]
          /\ Cardinality({m \in M : docs[m].createdAt > d.rows[i].doc.createdAt})
                <= skip + i - 1
          /\ Cardinality({m \in M : docs[m].createdAt >= d.rows[i].doc.createdAt})
                >= skip + i
    /\ \A i, j \in 1..Len(d.rows) : i # j => d.rows[i].id # d.rows[j].id

\* the response before this one was another page of the same listing; every
\* step that writes to a collection answers a request, so the store has not
\* changed between the two
AnotherPageOf(r1, r2) ==
    /\ r1.op = r2.op
    /\ r1.status = 200
    /\ r1.req.page # r2.req.page
    /\ [r1.req EXCEPT !.page = 0] = [r2.req EXCEPT !.page = 0]

\* C18: on an unchanging store a listing with page >= 1 and pageSize >= 1
\* returns the records at positions (page-1)*pageSize+1 .. page*pageSize of
\* the matching set from newest to oldest, total = size of the matching set
\* and pages = ceil(total / pageSize); no record is on two pages, so that pages
\* 1..pages show every matching record exactly once; a filter value outside
\* its enum is ignored.
C18_PagesPartitionTheMatchingSet ==
    [][(res' # res /\ res'.op \in LIST_OPS /\ res'.status = 200)
       => \A d \in res'.data :
             /\ PageIsRight(res'.op, res'.req, d)
             /\ AnotherPageOf(res, res')
                => \A e \in res.data : RowIds(d.rows) \cap RowIds(e.rows) = {}]_vars

\* page 2 of the contacts, one to a page, shows the later of two contacts that
\* were stored at the same instant
C18_Witness ==
    /\ res.op = "listContacts"
    /\ res.status = 200
    /\ res.req.limit = 1
    /\ res.req.page = 2
    /\ DOMAIN contacts = {1, 2}
    /\ contacts[1].createdAt = contacts[2].createdAt
    /\ \E d \in res.data : RowIds(d.rows) = {2}

\* no two records of the matching set were stored at the same instant
NoTies(op, rq) ==
    \A m, n \in MatchingSet(op, rq) :
        m # n => Listed(op)[m].createdAt # Listed(op)[n].createdAt

\* what does hold of the listings: every page is right for some order from
\* newest to oldest, and when no two matching records share their createdAt
\* the pages do not overlap
C18_PagesPartitionWithoutTies ==
    [][(res' # res /\ res'.op \in LIST_OPS /\ res'.status = 200)
       => \A d \in res'.data :
             /\ PageIsRight(res'.op, res'.req, d)
             /\ (AnotherPageOf(res, res') /\ NoTies(res'.op, res'.req))
                => \A e \in res.data : RowIds(d.rows) \cap RowIds(e.rows) = {}]_vars

----------------------------------------------------------------------------
(* The rate limiters *)

\* requests a client sends on after a limiter has started to reject it
MaxRejected == 2
\* requests the second client sends to each limiter
QuietRequests == 1

BusyClient == "203.0.113.1"
QuietClient == "203.0.113.2"

\* whether client c may send one more request to the limiter with this store
\* and max
MaySend(store, c, max) ==
    \/ store[c].reset <= now
    \/ store[c].n < (IF c = BusyClient THEN max + MaxRejected ELSE QuietRequests)

WrongPassword == "letmein"

LimiterNext ==
    \/ SeedAdmin
    \/ Tick(WindowMs)
    \/ \E c \in Clients, password \in {ADMIN_PASSWORD, WrongPassword} :
          /\ MaySend(hits.api, c, ApiMax)
          /\ MaySend(hits.login, c, LoginMax)
          /\ LoginRequest(c, ADMIN_EMAIL, password)
    \/ \E c \in Clients :
          /\ MaySend(hits.api, c, ApiMax)
          /\ MeRequest(c, NoAuthorization)

\* two clients send login and other requests through the limiters, in one
\* window and in the next
SpecLimiter == Init /\ [][LimiterNext]_vars

\* the window of a store entry is open at the time of the step
InWindow(h) == now < h.reset

\* a limiter counted one more request of client c
Counted(store, c) == store'[c] # store[c]

\* the count of the requests of a client in the window the request falls into
CountsOn(store, c) ==
    store'[c] = IF InWindow(store[c])
                THEN [n |-> store[c].n + 1, reset |-> store[c].reset]
                ELSE [n |-> 1, reset |-> now + 15 * 60 * 1000]

\* the handler did not run: nothing but the limiter stores and the response
\* has changed
HandlerSkipped == res'.status = 429 /\ admins' = admins /\ issued' = issued

\* C19: each limiter counts the requests of a client address in a window of
\* 15 minutes that starts with the client's first request; a login request is
\* passed on to validation and credential verification only while it is
\* among the first 5 of its window, whether the earlier ones succeeded or not,
\* and a request to an /api route is handled only while it is among the first
\* 100; the others are answered 429 without running the handler; the counts
\* of other clients do not move; the first request after the window is over
\* is counted as the first of a new window and handled.
C19_LimitersCapEachClient ==
    [][\A c \in Clients :
          /\ Counted(hits.api, c)
             => /\ CountsOn(hits.api, c)
                /\ \A d \in Clients \ {c} :
                      hits'.api[d] = hits.api[d] /\ hits'.login[d] = hits.login[d]
                /\ hits'.api[c].n > 100
                   => HandlerSkipped /\ hits'.login = hits.login
                /\ (hits'.api[c].n <= 100 /\ ~Counted(hits.login, c))
                   => res'.status # 429
          /\ Counted(hits.login, c)
             => /\ CountsOn(hits.login, c)
                /\ Counted(hits.api, c)
                /\ res'.op = "login"
                /\ hits'.login[c].n > 5 => HandlerSkipped
                /\ hits'.login[c].n <= 5 => res'.status \in {200, 401}]_vars

\* the first client is over both caps in the running window, and the second
\* client has just logged in
C19_Witness ==
    /\ hits.api[BusyClient].n > 100
    /\ hits.login[BusyClient].n > 5
    /\ InWindow(hits.api[BusyClient])
    /\ InWindow(hits.login[BusyClient])
    /\ hits.login[QuietClient].n = 1
    /\ res.op = "login"
    /\ res.status = 200

----------------------------------------------------------------------------
(* Submissions with more than one mistake *)

EmptyNamePlayer == [GoodPlayer EXCEPT !.inGameName = <<" ">>]
NoPlayers == [isArray |-> FALSE, items |-> <<>>]

\* contact messages with no, one, two, three and four fields that break a rule
ContactSubmissions ==
    {ValidContact, OtherContact,
     [ValidContact EXCEPT !.subject = "sales"],
     [ValidContact EXCEPT !.name = <<"a", " ">>, !.message = Rep("m", 9)],
     [ValidContact EXCEPT !.name = Rep("a", 101), !.email = "john@", !.subject = ""],
     [name |-> <<>>, email |-> "", phone |-> Undefined, subject |-> "",
      message |-> <<" ">>]}

\* registrations with no, one and several fields that break a rule
RegistrationSubmissions ==
    StatsBodies \cup
    {RegisterBody("pubg", "solo", Undefined, Roster(1), <<"U", "P", "I">>, 0, ""),
     RegisterBody("chess", "solo", Undefined, Roster(1), <<"U", "P", "I">>, 0, ""),
     RegisterBody("pubg", "trio", JsString(Rep("t", 51)), Roster(6), Txn1, 0, ""),
     RegisterBody("", "", Undefined, NoPlayers, <<>>, 0, ""),
     RegisterBody("cod", "duo", JsString(Alpha),
                  [isArray |-> TRUE, items |-> <<GoodPlayer, EmptyNamePlayer>>],
                  <<" ", "U", "P", "I", " ">>, 0, "")}

ValidationNext ==
    \/ \E b \in ContactSubmissions : SubmitContact(b)
    \/ \E b \in RegistrationSubmissions : RegisterReceive(1, b)
    \/ RegisterFindOne(1)
    \/ RegisterSave(1)

\* well-formed and ill-formed submissions to the two public routes
SpecValidation == Init /\ [][ValidationNext]_vars

CONTACT_FIELDS == {"name", "email", "subject", "message"}
REGISTER_FIELDS == {"game", "mode", "teamName", "players", "players.*.inGameName",
                    "players.*.inGameId", "players.*.phone", "transactionId"}

\* the messages the response uses for a field
FieldMessages(f) ==
    CASE f = "name" -> {"Name is required", "Name must be 2-100 characters"}
      [] f = "email" -> {"Email is required", "Invalid email format"}
      [] f = "subject" -> {"Subject is required", "Invalid subject category"}
      [] f = "message" -> {"Message is required", "Message must be 10-2000 characters"}
      [] f = "game" -> {"Game is required", "Invalid game selection"}
      [] f = "mode" -> {"Mode is required", "Invalid mode selection"}
      [] f = "teamName" -> {"Team name cannot exceed 50 characters"}
      [] f = "players" -> {"Players array is required (1-5 players)"}
      [] f = "players.*.inGameName" -> {"In-game name is required for all players"}
      [] f = "players.*.inGameId" -> {"In-game ID is required for all players"}
      [] f = "players.*.phone" -> {"Phone number is required for all players"}
      [] f = "transactionId" -> {"Transaction ID is required",
                                 "Transaction ID must be at least 5 characters"}

\* whether the value of a field breaks the rules the route states for it
BreaksRule(f, b) ==
    CASE f = "name" -> Len(Trim(b.name)) \notin 2..100
      [] f = "email" -> ~IsEmailAnyCase(b.email)
      [] f = "subject" -> b.subject \notin SUBJECTS
      [] f = "message" -> Len(Trim(b.message)) \notin 10..2000
      [] f = "game" -> b.game \notin {"pubg", "freefire", "cod"}
      [] f = "mode" -> b.mode \notin {"solo", "duo", "squad"}
      [] f = "teamName" -> ~Falsy(b.teamName) /\ Len(Trim(b.teamName.str)) > 50
      [] f = "players" -> ~b.players.isArray \/ Len(b.players.items) \notin 1..5
      [] f = "players.*.inGameName" ->
            \E i \in 1..Len(b.players.items) : Trim(b.players.items[i].inGameName) = <<>>
      [] f = "players.*.inGameId" ->
            \E i \in 1..Len(b.players.items) : Trim(b.players.items[i].inGameId) = <<>>
      [] f = "players.*.phone" ->
            \E i \in 1..Len(b.players.items) : Trim(b.players.items[i].phone) = <<>>
      [] f = "transactionId" -> Len(Trim(b.transactionId)) < 5

BrokenFields(op, b) ==
    {f \in IF op = "contact" THEN CONTACT_FIELDS ELSE REGISTER_FIELDS : BreaksRule(f, b)}

\* C20: a contact or registration submission in which more than one field
\* breaks its validation rule is answered 400 with at least one message for
\* each of those fields, and nothing is stored, dispatched or left in flight.
C20_EveryBrokenFieldReported ==
    [][(/\ res' # res
        /\ res'.op \in {"contact", "register"}
        /\ Cardinality(BrokenFields(res'.op, res'.req)) > 1)
       => /\ res'.status = 400
          /\ \A f \in BrokenFields(res'.op, res'.req) :
                \E i \in 1..Len(res'.errors) : res'.errors[i] \in FieldMessages(f)
          /\ contacts' = contacts
          /\ contactSeq' = contactSeq
          /\ registrations' = registrations
          /\ reg' = reg
          /\ mail' = mail]_vars

\* a registration with three broken fields was answered 400 with a message
\* for each, after a contact and a registration had been stored
C20_Witness ==
    /\ res.op = "register"
    /\ res.status = 400
    /\ BrokenFields("register", res.req) = {"mode", "teamName", "players"}
    /\ \A f \in {"mode", "teamName", "players"} :
          \E i \in 1..Len(res.errors) : res.errors[i] \in FieldMessages(f)
    /\ Len(registrations) = 1
    /\ contactSeq = 1

----------------------------------------------------------------------------
(* Fields the schema limits and the validation chains do not *)

LongIdPlayer == [GoodPlayer EXCEPT !.inGameId = Rep("7", 31)]

\* registrations whose players are fine, have a name of 51 characters or an
\* id of 31, and one that also fails a validation chain
SchemaBodies ==
    {RegisterBody("pubg", "solo", Undefined, Roster(1), Txn1, 0, ""),
     RegisterBody("pubg", "solo", Undefined,
                  [isArray |-> TRUE, items |-> <<LongNamePlayer>>], Txn2, 0, ""),
     RegisterBody("cod", "duo", JsString(Alpha),
                  [isArray |-> TRUE, items |-> <<GoodPlayer, LongIdPlayer>>], Txn2, 0, ""),
     RegisterBody("chess", "solo", Undefined,
                  [isArray |-> TRUE, items |-> <<LongNamePlayer>>], Txn2, 0, "")}

SchemaNext ==
    \/ \E p \in Handlers, b \in SchemaBodies : RegisterReceive(p, b)
    \/ \E p \in Handlers : RegisterFindOne(p)
    \/ \E p \in Handlers : RegisterSave(p)

\* registrations that the schema accepts and that it refuses
SpecSchema == Init /\ [][SchemaNext]_vars

\* a player of the submission breaks a length limit of the data model
PlayerTooLong(b) ==
    \E i \in 1..Len(b.players.items) :
        \/ Len(Trim(b.players.items[i].inGameName)) > 50
        \/ Len(Trim(b.players.items[i].inGameId)) > 30

\* C21: a registration submission in which a player's inGameName is longer
\* than 50 characters or inGameId longer than 30 is answered with a
\* structured 400 validation response, never with a 500.
C21_SchemaLimitsAnswered400 ==
    [][(res' # res /\ res'.op = "register" /\ PlayerTooLong(res'.req))
       => res'.status = 400 /\ res'.errors # <<>>]_vars

\* a registration with a player name of 51 characters and nothing else wrong
\* was answered 500, and nothing was stored
C21_Witness ==
    /\ res.op = "register"
    /\ res.status = 500
    /\ RegisterValidationErrors(res.req) = <<>>
    /\ PlayerTooLong(res.req)
    /\ res.req.players.items[1].inGameName = Rep("n", 51)
    /\ registrations = <<>>

\* what does hold: a submission that fails a validation chain is answered
\* 400 with the messages, and no submission with a field over its limit is
\* stored
C21_ChainFailuresAnswered400 ==
    [][/\ (res' # res /\ res'.op = "register" /\ RegisterValidationErrors(res'.req) # <<>>)
          => res'.status = 400 /\ res'.errors # <<>>
       /\ \A i \in 1..Len(registrations') :
             \A j \in 1..Len(registrations'[i].players) :
                /\ Len(registrations'[i].players[j].inGameName) <= 50
                /\ Len(registrations'[i].players[j].inGameId) <= 30]_vars

----------------------------------------------------------------------------
(* Tokens of one account side by side *)

\* a second login a minute after the first, and the clock an hour later
TokenInstants == {60 * 1000, 60 * 60 * 1000}

TokensNext ==
    \/ SeedAdmin
    \/ \E a \in DOMAIN admins : DeleteAdminManually(a)
    \/ Login(ADMIN_EMAIL, ADMIN_PASSWORD)
    \/ \E t \in TokenInstants : Tick(t)
    \/ contactSeq < AdminContacts /\ SubmitContact(ValidContact)
    \/ \E auth \in AuthHeaders : Me(auth)
    \/ \E auth \in AuthHeaders : ListContacts(auth, "", 1, 20)
    \/ \E auth \in AuthHeaders, id \in ContactIds : UpdateContactStatus(auth, id, "read")
    \/ \E auth \in AuthHeaders, id \in ContactIds : DeleteContact(auth, id)

\* the admin logs in more than once and uses every token on queries and
\* mutations
SpecTokens == Init /\ [][TokensNext]_vars

\* C22: a token that was issued, has not expired and whose account exists is
\* accepted by protect in every state and by every admin operation it is
\* presented to, whatever logins, queries and mutations have happened since;
\* tokens of one account are accepted side by side.
C22_TokensNeverRevoked ==
    [][/\ \A t \in issued : Authenticated(Bearer(t)) => Protect(Bearer(t)).pass
       /\ (/\ res' # res
           /\ res'.op \in ADMIN_OPS
           /\ Authenticated(res'.req.auth))
          => res'.status # 401]_vars

\* two tokens of the account exist, and the older one has just been accepted
\* after the later login and after a contact was updated
C22_Witness ==
    /\ Cardinality(issued) = 2
    /\ \A t \in issued : Authenticated(Bearer(t)) /\ Protect(Bearer(t)).pass
    /\ res.op = "me"
    /\ res.status = 200
    /\ res.req.auth.token.iat = 0
    /\ \E a \in DOMAIN admins : admins[a].lastLogin = 60 * 1000
    /\ \E c \in DOMAIN contacts : contacts[c].status = "read"

----------------------------------------------------------------------------
(* What a login writes *)

\* C23: a successful login sets the lastLogin of the account that logged in,
\* leaves its password hash and every other field and account as they were
\* and issues one token, and the seed password verifies against the stored
\* hash in every state, so also on every later login; a login that is not
\* answered 200 changes no account and issues no token.
C23_LoginWritesLastLoginOnly ==
    [][/\ \A a \in DOMAIN admins : ComparePassword("ISHUkr75@", admins[a].password)
       /\ (res' # res /\ res'.op = "login" /\ res'.status = 200)
          => \E a \in DOMAIN admins :
                /\ admins[a].email = res'.req.email
                /\ admins' = [admins EXCEPT ![a].lastLogin = now]
                /\ admins'[a].password = admins[a].password
                /\ \A d \in res'.data : issued' = issued \cup {d.token}
                /\ adminSeq' = adminSeq
       /\ (res' # res /\ res'.op = "login" /\ res'.status # 200)
          => admins' = admins /\ issued' = issued]_vars

\* the account has logged in a second time, long after the first, with the
\* same password
C23_Witness ==
    /\ res.op = "login"
    /\ res.status = 200
    /\ res.req.password = "ISHUkr75@"
    /\ Cardinality(issued) = 2
    /\ \E a \in DOMAIN admins :
          admins[a].lastLogin = now /\ now > 0 /\ admins[a].password = BcryptHash("ISHUkr75@")

----------------------------------------------------------------------------
(* What the responses show of an account *)

\* the fields of the records a response carries, rows of a listing included
ShownFields(d) ==
    DOMAIN d
    \cup (IF "admin" \in DOMAIN d THEN DOMAIN d.admin ELSE {})
    \cup (IF "token" \in DOMAIN d THEN DOMAIN d.token ELSE {})
    \cup (IF "doc" \in DOMAIN d THEN DOMAIN d.doc ELSE {})
    \cup (IF "rows" \in DOMAIN d
          THEN UNION {DOMAIN d.rows[i].doc : i \in 1..Len(d.rows)} ELSE {})

\* C24: no response carries the password field of an account: a successful
\* login answers with the token and the id, name, email and role of the
\* account, /me with id, name, email, role and lastLogin, and the records of
\* every other response have no password field either.
C24_NoPasswordInResponses ==
    /\ \A d \in res.data : "password" \notin ShownFields(d)
    /\ (res.op = "login" /\ res.status = 200)
       => \A d \in res.data :
             /\ DOMAIN d = {"token", "admin"}
             /\ DOMAIN d.admin = {"id", "name", "email", "role"}
             /\ DOMAIN d.token = {"id", "iat", "exp", "sig"}
    /\ (res.op = "me" /\ res.status = 200)
       => \A d \in res.data : DOMAIN d = {"id", "name", "email", "role", "lastLogin"}
    /\ res.status \notin {200, 201} => res.data = {}

\* /me has answered the logged-in admin, whose stored document holds the hash
C24_Witness ==
    /\ res.op = "me"
    /\ res.status = 200
    /\ \E d \in res.data :
          /\ d.id \in DOMAIN admins
          /\ d.email = admins[d.id].email
          /\ admins[d.id].password = BcryptHash(ADMIN_PASSWORD)
    /\ Len(registrations) > 0

----------------------------------------------------------------------------
(* Starting with and without the database *)

\* the state in which the process starts: as Init, with startServer yet to run
Boot ==
    /\ registrations = <<>>
    /\ contacts = <<>>
    /\ contactSeq = 0
    /\ admins = <<>>
    /\ adminSeq = 0
    /\ issued = {}
    /\ now = 0
    /\ reg = [p \in Handlers |-> IdleHandler]
    /\ stats = IdleStats
    /\ mail = {}
    /\ hits = [api |-> [c \in Clients |-> NoHits], login |-> [c \in Clients |-> NoHits]]
    /\ server = Booting
    /\ seed = [r \in Seeders |-> IdleSeeder]
    /\ res = NoResponse

\* the server can take requests to the routes that use the database
DatabaseUp == server.pc = "listening" /\ server.db = "connected"

StartNext ==
    \/ ConnectResolves
    \/ ConnectRejects
    \/ Listen
    \/ ConnectionDrops
    \/ Health
    \/ \E t \in {600, DayMs} : Tick(t)
    \/ DatabaseUp /\ \E b \in {ValidContact, ShortMessageContact} : SubmitContact(b)
    \/ DatabaseUp /\ RegisterReceive(1, ValidRegistration)
    \/ DatabaseUp /\ RegisterFindOne(1)
    \/ DatabaseUp /\ RegisterSave(1)

\* mongoose.connect settles, by the driver's server selection timeout at the
\* latest, and the statement after an await that has settled is run
SpecStart ==
    /\ Boot
    /\ [][StartNext]_vars
    /\ WF_vars(ConnectResolves \/ ConnectRejects)
    /\ WF_vars(Listen)

\* C25: whether mongoose.connect resolves or rejects, the server comes to
\* listen, and from then on it listens for good and every health request is
\* answered 200 with success true and the readyState the connection has at
\* that moment, connected or not.
C25_HealthServedWithoutDatabase ==
    /\ <>[](server.pc = "listening")
    /\ [][(res' # res /\ res'.op = "health")
          => /\ server.pc = "listening"
             /\ res'.status = 200
             /\ \A d \in res'.data : d.success /\ d.database = server.db]_vars
    /\ [](server.pc = "listening" => ENABLED Health)

\* the connection failed at startup and the health endpoint has answered
\* with the database disconnected, nothing ever having been stored
C25_Witness ==
    /\ res.op = "health"
    /\ res.status = 200
    /\ \E d \in res.data : d.success /\ d.database = "disconnected"
    /\ server.pc = "listening"
    /\ contactSeq = 0
    /\ registrations = <<>>

-----------------------------------------------------------------------------
(* Provisioning: the seed script run repeatedly and concurrently *)

SeedNext ==
    \/ \E r \in Seeders : SeedFind(r)
    \/ \E r \in Seeders : SeedSave(r)
    \/ \E e \in {ADMIN_EMAIL, "nobody@example.com"}, pw \in {ADMIN_PASSWORD, "wrong-password"} :
          Login(e, pw)
    \/ Tick(60 * 1000)
    \/ contactSeq < AdminContacts /\ SubmitContact(ValidContact)
    \/ \E auth \in AuthHeaders : Me(auth)
    \/ \E auth \in AuthHeaders, id \in ContactIds : UpdateContactStatus(auth, id, "read")
    \/ Health

\* the seed script is run by several operators while the API serves requests
SpecSeed == Init /\ [][SeedNext]_vars

\* C26: an account appears only in a step of the seed script that logs
\* "created", never in a step that sends an HTTP response; a seed run started
\* when the account with the seed email exists logs "exists" and leaves the
\* accounts as they are; no two accounts share an email; and once any seed run
\* has finished there is exactly one account with the seed email.
C26_OnlySeedCreatesTheAdmin ==
    /\ [][DOMAIN admins' # DOMAIN admins =>
            /\ res' = res
            /\ \E r \in Seeders : /\ seed[r].pc = "save"
                                  /\ seed'[r].last = "created"
                                  /\ seed'[r].runs = seed[r].runs + 1]_vars
    /\ [][\A r \in Seeders :
            (seed[r].pc = "idle" /\ seed'[r] # seed[r] /\ FindAdminByEmail(ADMIN_EMAIL) # {}) =>
                /\ seed'[r].last = "exists"
                /\ admins' = admins
                /\ adminSeq' = adminSeq]_vars
    /\ [](\A a, b \in DOMAIN admins : admins[a].email = admins[b].email => a = b)
    /\ []((\E r \in Seeders : seed[r].runs > 0) =>
            Cardinality(FindAdminByEmail(ADMIN_EMAIL)) = 1)

\* two runs raced for the insert and one lost it, the admin logged in, and a
\* later run found the account: still one account, its lastLogin kept
C26_Witness ==
    /\ seed[1].runs = 2 /\ seed[1].last = "exists"
    /\ seed[2].last = "error"
    /\ Cardinality(DOMAIN admins) = 1
    /\ \E a \in DOMAIN admins : admins[a].email = ADMIN_EMAIL /\ admins[a].lastLogin # NoDate

-----------------------------------------------------------------------------
(* POST /api/v1/register: the order of the checks *)

\* registrations with one fault, with two, and with none, on two transaction
\* ids, so that every fault also meets a transaction id that is in use
OrderBodies ==
    {RegisterBody(g, "solo", Undefined, Roster(1), t, 0, "") :
        g \in {"pubg", "chess"}, t \in {Txn1, Txn2}}
    \cup {RegisterBody("cod", "duo", JsString(Alpha), Roster(n), t, 0, "") :
        n \in {1, 2}, t \in {Txn1, Txn2}}
    \cup {RegisterBody(g, "squad", Undefined, Roster(n), t, 0, "") :
        g \in {"freefire", ""}, n \in {3, 4}, t \in {Txn1, Txn2}}

OrderNext ==
    \/ \E p \in Handlers, b \in OrderBodies : RegisterReceive(p, b)
    \/ \E p \in Handlers : RegisterFindOne(p)
    \/ \E p \in Handlers : RegisterSave(p)

\* submissions with every combination of faults, two at a time
SpecOrder == Init /\ [][OrderNext]_vars

\* the store holds a registration with the submission's transaction id
TransactionIdUsed(b) ==
    FindByTransactionId(registrations, Trim(b.transactionId)) # {}

\* the roster is shorter than the mode asks, or a team has no name
RosterOrTeamFault(b) ==
    /\ b.mode \in MODES
    /\ \/ Len(b.players.items) < PLAYER_COUNT[b.mode]
       \/ b.mode \in {"duo", "squad"} /\ Falsy(b.teamName)

\* C27: the checks of a registration are applied in the order validation,
\* duplicate lookup, roster and team name, write: a submission that fails a
\* validation chain is answered 400 "Validation failed" whether or not its
\* transaction id is in use; a submission that passes the chains, whose
\* transaction id is in use when it is answered and whose roster is short or
\* whose team name is missing is answered 409; and the roster and team-name
\* refusals are given only to submissions whose transaction id is not in use.
C27_ChecksInFixedOrder ==
    [][(res' # res /\ res'.op = "register") =>
        LET b == res'.req
        IN /\ RegisterValidationErrors(b) # <<>> =>
                /\ res'.status = 400
                /\ res'.message = "Validation failed. Please check your input."
           /\ (RegisterValidationErrors(b) = <<>> /\ TransactionIdUsed(b)
                 /\ RosterOrTeamFault(b)) => res'.status = 409
           /\ (res'.status = 400 /\ RegisterValidationErrors(b) = <<>>) =>
                (~TransactionIdUsed(b) /\ RosterOrTeamFault(b))]_vars

\* a duo of one player whose transaction id is taken was answered 409
C27_Witness ==
    /\ res.op = "register"
    /\ res.status = 409
    /\ RegisterValidationErrors(res.req) = <<>>
    /\ TransactionIdUsed(res.req)
    /\ res.req.mode = "duo"
    /\ Len(res.req.players.items) = 1

-----------------------------------------------------------------------------
(* POST /api/v1/register: what a refused submission leaves behind *)

\* registrations that are stored and registrations that end in each of the
\* refusals: a validation 400, a roster 400, a team-name 400, the 409 of the
\* lookup and of the index, and the 500 of a save that throws
RefusedBodies ==
    {RegisterBody(g, "solo", Undefined, Roster(1), t, 0, "") :
        g \in {"pubg", "chess"}, t \in {Txn1, Txn2}}
    \cup {RegisterBody("cod", "duo", JsString(Alpha), Roster(1), Txn2, 0, ""),
          RegisterBody("cod", "squad", Null, Roster(4), Txn2, 0, ""),
          RegisterBody("freefire", "solo", Undefined,
                       [isArray |-> TRUE, items |-> <<LongNamePlayer>>], Txn2, 0, "")}

RefusedNext ==
    \/ \E p \in Handlers, b \in RefusedBodies : RegisterReceive(p, b)
    \/ \E p \in Handlers : RegisterFindOne(p)
    \/ \E p \in Handlers : RegisterSave(p)

\* accepted and refused registrations handled concurrently
SpecRefused == Init /\ [][RefusedNext]_vars

\* C28: a step of the registration workflow that sends a response other than
\* 201 leaves the stored registrations (and the dispatched notifications) as
\* they were; the store changes only in the step that answers 201, by the one
\* record that response names, and only the handler that answers wrote it.
C28_RefusedSubmissionPersistsNothing ==
    /\ [][(res' # res /\ res'.op = "register" /\ res'.status # 201) =>
            (registrations' = registrations /\ mail' = mail)]_vars
    /\ [][registrations' # registrations =>
            /\ res'.op = "register"
            /\ res'.status = 201
            /\ Len(registrations') = Len(registrations) + 1
            /\ SubSeq(registrations', 1, Len(registrations)) = registrations
            /\ registrations'[Len(registrations')].transactionId = Trim(res'.req.transactionId)
            /\ \A d \in res'.data : d.registrationId = Len(registrations')
            /\ reg[res'.to].pc = "save"
            /\ \A p \in Handlers \ {res'.to} : reg'[p] = reg[p]]_vars

\* one registration is stored, and a submission that lost the race for the
\* same transaction id at the index was answered 409 and left no record
C28_Witness ==
    /\ res.op = "register"
    /\ res.status = 409
    /\ res.message = "This transaction ID has already been used for another registration."
    /\ Len(registrations) = 1
    /\ registrations[1].transactionId = Trim(res.req.transactionId)
    /\ Cardinality(mail) = 1

-----------------------------------------------------------------------------
(* Which submissions a notification is attempted for *)

\* registrations that are stored, with a fee field of the client's own, and
\* registrations and contact messages that are refused with 400, 409 and 500
AttemptBodies ==
    {RegisterBody("pubg", "solo", Undefined, Roster(1), Txn1, 0, ""),
     RegisterBody("cod", "duo", JsString(Alpha), Roster(2), Txn1, 1, ""),
     RegisterBody("cod", "duo", JsString(Alpha), Roster(1), Txn2, 10, ""),
     RegisterBody("chess", "solo", Undefined, Roster(1), Txn2, 5, ""),
     RegisterBody("freefire", "solo", Undefined,
                  [isArray |-> TRUE, items |-> <<LongNamePlayer>>], Txn2, 5, "")}

AttemptNext ==
    \/ \E p \in Handlers, b \in AttemptBodies : RegisterReceive(p, b)
    \/ \E p \in Handlers : RegisterFindOne(p)
    \/ \E p \in Handlers : RegisterSave(p)
    \/ contactSeq < AdminContacts /\ \E b \in {ValidContact, ShortMessageContact} : SubmitContact(b)
    \/ \E m \in mail : MailSettle(m, "failed")

\* accepted and refused submissions of both kinds, and their notifications
SpecAttempt == Init /\ [][AttemptNext]_vars

\* the notifications a step dispatches: those of mail' for a submission that
\* had none before
Dispatched(before, after) ==
    {m \in after : \A n \in before : n.kind # m.kind \/ n.id # m.id}

\* C29: no submission ever has two notifications; a step dispatches at most
\* one, and only the step that stores the submission's record and answers 201:
\* for a registration the notification names the record just stored and
\* carries FEE_TABLE[mode], which is the fee stored, and for a contact message
\* it is for the message just stored; a step that answers a registration or a
\* contact submission with anything but 201 dispatches none.
C29_NotifiedOnlyAfterPersisting ==
    /\ [](\A m, n \in mail : (m.kind = n.kind /\ m.id = n.id) => m = n)
    /\ [][LET sent == Dispatched(mail, mail')
          IN /\ Cardinality(sent) <= 1
             /\ \A m \in sent :
                  /\ m.state = "pending"
                  /\ res'.status = 201
                  /\ m.kind = "registration" =>
                       /\ res'.op = "register"
                       /\ Len(registrations') = Len(registrations) + 1
                       /\ m.id = Len(registrations')
                       /\ m.payload.registrationId = m.id
                       /\ m.payload.entryFee = FEE_TABLE[registrations'[m.id].mode]
                       /\ m.payload.entryFee = registrations'[m.id].entryFee
                       /\ m.payload.transactionId = registrations'[m.id].transactionId
                  /\ m.kind = "contact" =>
                       /\ res'.op = "contact"
                       /\ m.id \in DOMAIN contacts' \ DOMAIN contacts
                       /\ m.payload.message = contacts'[m.id].message
             /\ (res' # res /\ res'.op \in {"register", "contact"} /\ res'.status # 201)
                  => sent = {}]_vars

\* a duo was stored and notified with the fee of 10 although it sent a fee of
\* 1, and the submission that reused its transaction id was answered 409
\* without a notification
C29_Witness ==
    /\ res.op = "register"
    /\ res.status = 409
    /\ Len(registrations) = 1
    /\ Cardinality(mail) = 1
    /\ \E m \in mail : /\ m.kind = "registration"
                       /\ m.payload.registrationId = 1
                       /\ m.payload.entryFee = 10
                       /\ registrations[1].mode = "duo"

-----------------------------------------------------------------------------
(* GET /stats while registrations are submitted and moderated *)

SnapshotNext ==
    \/ \E b \in StatsBodies : RegisterReceive(1, b)
    \/ RegisterFindOne(1)
    \/ RegisterSave(1)
    \/ SeedAdmin
    \/ issued = {} /\ Login(ADMIN_EMAIL, ADMIN_PASSWORD)
    \/ \E t \in issued, id \in 1..Len(registrations) :
          UpdateRegistrationStatus(Bearer(t), id, "approved")
    \/ \E t \in issued : StatsStart(Bearer(t))
    \/ \E q \in CountQueries : StatsCountResolves(q)
    \/ StatsRevenue

\* the dashboard is read, query by query, while the store is written
SpecSnapshot == Init /\ [][SnapshotNext]_vars

RECURSIVE FeesIn(_, _, _)
\* the sum of entryFee over the registrations of store numbered in S, up to n
FeesIn(store, S, n) ==
    IF n = 0 THEN 0
    ELSE (IF n \in S THEN store[n].entryFee ELSE 0) + FeesIn(store, S, n - 1)

\* C30: every stats() response is a consistent snapshot: its pending and its
\* approved count do not exceed its total count, and its revenue is the sum
\* of entryFee over as many stored registrations as its approved count says.
C30_StatsIsConsistentSnapshot ==
    [][(res' # res /\ res'.op = "stats" /\ res'.status = 200) =>
        \A d \in res'.data :
           /\ d.counts.pendingRegistrations <= d.counts.totalRegistrations
           /\ d.counts.approvedRegistrations <= d.counts.totalRegistrations
           /\ \E S \in SUBSET (1..Len(registrations')) :
                 /\ Cardinality(S) = d.counts.approvedRegistrations
                 /\ d.revenue = FeesIn(registrations', S, Len(registrations'))]_vars

\* the dashboard reports no approved registration and a revenue: the one
\* registration was approved after the counts and before the find
C30_Witness ==
    /\ res.op = "stats"
    /\ res.status = 200
    /\ \E d \in res.data : d.counts.approvedRegistrations = 0 /\ d.revenue > 0
    /\ \E i \in 1..Len(registrations) : registrations[i].status = "approved"

\* the dashboard reports more pending registrations than registrations: one
\* was stored between the two countDocuments
C30_PendingExceedsTotal ==
    /\ res.op = "stats"
    /\ res.status = 200
    /\ \E d \in res.data : d.counts.pendingRegistrations > d.counts.totalRegistrations

====
